---------------------------- MODULE Spec2Model ----------------------------
(* Trading core of the exchange: the in-memory matching engine            *)
(* (internal/matching), the settlement service (MatchingService), the     *)
(* order lifecycle (CreateOrderLogic, CancelOrderLogic), the balance      *)
(* ledger (model/balance.go) and deposits (DepositLogic).                 *)
(*                                                                        *)
(* Decimals are modelled as integers counting a fixed unit: the code only *)
(* adds, subtracts, multiplies and compares them, and decimal.String /    *)
(* decimal.NewFromString round-trip exactly on the values it produces.    *)
(* A market order has Price "" which NewFromString (error ignored) reads  *)
(* as zero.  One symbol, BTC/USDT, is modelled.                           *)
EXTENDS Integers, Sequences, FiniteSets, TLC

\* ------------------------------------------------------------------ bounds
MaxOrders   == 2      \* order rows ever inserted (lifecycle spec)
MaxDeposits == 2      \* deposits ever made
MaxAmt      == 3      \* order amounts are 1..MaxAmt
MaxPrice    == 2      \* limit prices are 1..MaxPrice
MaxSubmits  == 3      \* ProcessOrder calls of the engine spec
MaxProcs    == 3      \* concurrent ProcessOrder calls of the concurrent spec
MaxPlaced   == 1      \* order rows ever inserted (placement spec)
MaxLongOrders == 3    \* order rows ever inserted (three-order spec)
MaxBookOrders == 2    \* orders ever handed to the book (book spec)

\* --------------------------------------------------------------- constants
Limit  == 1
Market == 2
Buy    == 1
Sell   == 2
Pending         == 1
PartiallyFilled == 2
Filled          == 3
Canceled        == 4

Users      == {1, 2}
Base       == "BTC"
Quote      == "USDT"
Currencies == {Base, Quote}
DepositAmounts == {4}

VARIABLES
  mem,        \* id -> the *model.Order object shared by the caller and the book
  db,         \* id -> the persisted row of table orders
  Bids,       \* price -> PriceLevel [Orders, Total]
  Asks,
  BidPrices,  \* prices of the bid levels, high to low
  AskPrices,  \* prices of the ask levels, low to high
  bal,        \* <<user, currency>> -> [available, frozen], rows of table balances
  trades,     \* rows of table trades (engine spec: every trade emitted)
  deposited,  \* <<user, currency>> -> sum of the asset_transactions deposit rows
  ndep,       \* number of deposits made
  res,        \* outcome of the last request (MatchResult, error)
  cpc, cord, crem, cpeek, ctrades,  \* concurrent spec: goroutines in ProcessOrder
  orderBooks, \* MatchingEngine.orderBooks: symbol -> book (several symbols)
  mutex       \* a book's sync.RWMutex: [readers, writer]

vars == <<mem, db, Bids, Asks, BidPrices, AskPrices, bal, trades, deposited,
          ndep, res, cpc, cord, crem, cpeek, ctrades, orderBooks, mutex>>

\* the engine map and the mutex are touched only by the specifications
\* about them, so both tuples carry them
concVars == <<cpc, cord, crem, cpeek, ctrades, orderBooks, mutex>>
seqVars  == <<db, bal, trades, deposited, ndep, res, orderBooks, mutex>>

\* the zero value of sync.RWMutex: no reader, no writer, nobody in Lock
NewRWMutex == [readers |-> 0, writer |-> 0]

\* ----------------------------------------------------------------- helpers
Min(a, b) == IF a <= b THEN a ELSE b

RECURSIVE SumSeq(_)
SumSeq(s) == IF s = <<>> THEN 0 ELSE Head(s) + SumSeq(Tail(s))

\* index of the first element equal to x, 0 when absent
RECURSIVE IndexOf(_, _, _)
IndexOf(s, x, i) ==
  IF i > Len(s) THEN 0 ELSE IF s[i] = x THEN i ELSE IndexOf(s, x, i + 1)

RemoveAt(s, i) == SubSeq(s, 1, i - 1) \o SubSeq(s, i + 1, Len(s))

\* sort.Slice: desc = TRUE orders high to low (GreaterThan), FALSE low to high
\* (LessThan); the prices of one side are distinct
Before(a, b, desc) == IF desc THEN a > b ELSE a < b

RECURSIVE InsertSorted(_, _, _)
InsertSorted(s, x, desc) ==
  IF s = <<>> THEN <<x>>
  ELSE IF Before(x, Head(s), desc) THEN <<x>> \o s
  ELSE <<Head(s)>> \o InsertSorted(Tail(s), x, desc)

RECURSIVE SortSlice(_, _)
SortSlice(s, desc) ==
  IF s = <<>> THEN <<>>
  ELSE InsertSorted(SortSlice(Tail(s), desc), Head(s), desc)

\* ------------------------------------------------------------- order book
NewPriceLevel(price) == [Price |-> price, Orders |-> <<>>, Total |-> 0]

\* a PriceLevel.AddOrder that pushes to the front of the list (PushFront)
LevelAddOrderFront(pl, o) ==
  [pl EXCEPT !.Orders = <<o.id>> \o @, !.Total = @ + o.amount]

\* PriceLevel.AddOrder
LevelAddOrder(pl, o) ==
  [pl EXCEPT !.Orders = Append(@, o.id), !.Total = @ + o.amount]

\* PriceLevel.RemoveOrder: the first element with the order's ID
LevelRemoveOrder(pl, o) ==
  LET i == IndexOf(pl.Orders, o.id, 1)
  IN  IF i = 0 THEN pl
      ELSE [pl EXCEPT !.Orders = RemoveAt(@, i), !.Total = @ - o.amount]

insertBidPrice(prices, price) == SortSlice(Append(prices, price), TRUE)
insertAskPrice(prices, price) == SortSlice(Append(prices, price), FALSE)

removePrice(prices, price) ==
  LET i == IndexOf(prices, price, 1)
  IN  IF i = 0 THEN prices ELSE RemoveAt(prices, i)

\* a book is the record [Bids, Asks, BidPrices, AskPrices]
NewOrderBook == [Bids |-> <<>>, Asks |-> <<>>, BidPrices |-> <<>>, AskPrices |-> <<>>]

Put(f, k, v) == [x \in DOMAIN f \cup {k} |-> IF x = k THEN v ELSE f[x]]
Del(f, k)    == [x \in DOMAIN f \ {k} |-> f[x]]

\* OrderBook.AddOrder
AddOrder(bk, o) ==
  IF o.side = Buy
  THEN LET isNew == o.price \notin DOMAIN bk.Bids
           lvl   == IF isNew THEN NewPriceLevel(o.price) ELSE bk.Bids[o.price]
       IN  [bk EXCEPT !.Bids = Put(@, o.price, LevelAddOrder(lvl, o)),
                      !.BidPrices = IF isNew THEN insertBidPrice(@, o.price) ELSE @]
  ELSE LET isNew == o.price \notin DOMAIN bk.Asks
           lvl   == IF isNew THEN NewPriceLevel(o.price) ELSE bk.Asks[o.price]
       IN  [bk EXCEPT !.Asks = Put(@, o.price, LevelAddOrder(lvl, o)),
                      !.AskPrices = IF isNew THEN insertAskPrice(@, o.price) ELSE @]

\* an OrderBook.RemoveOrder that leaves a drained level in place
RemoveOrderKeepLevel(bk, o) ==
  IF o.side = Buy
  THEN IF o.price \notin DOMAIN bk.Bids THEN bk
       ELSE [bk EXCEPT !.Bids = Put(@, o.price, LevelRemoveOrder(bk.Bids[o.price], o))]
  ELSE IF o.price \notin DOMAIN bk.Asks THEN bk
       ELSE [bk EXCEPT !.Asks = Put(@, o.price, LevelRemoveOrder(bk.Asks[o.price], o))]

\* OrderBook.RemoveOrder
RemoveOrder(bk, o) ==
  IF o.side = Buy
  THEN IF o.price \notin DOMAIN bk.Bids THEN bk
       ELSE LET lvl == LevelRemoveOrder(bk.Bids[o.price], o)
            IN  IF lvl.Orders = <<>>
                THEN [bk EXCEPT !.Bids = Del(@, o.price),
                                !.BidPrices = removePrice(@, o.price)]
                ELSE [bk EXCEPT !.Bids = Put(@, o.price, lvl)]
  ELSE IF o.price \notin DOMAIN bk.Asks THEN bk
       ELSE LET lvl == LevelRemoveOrder(bk.Asks[o.price], o)
            IN  IF lvl.Orders = <<>>
                THEN [bk EXCEPT !.Asks = Del(@, o.price),
                                !.AskPrices = removePrice(@, o.price)]
                ELSE [bk EXCEPT !.Asks = Put(@, o.price, lvl)]

\* OrderBook.UpdateOrderAmount: the level total; the caller's order object
\* gets Amount = newAmount only when the level exists
UpdateOrderAmount(bk, o, newAmount) ==
  IF o.side = Buy
  THEN IF o.price \notin DOMAIN bk.Bids THEN bk
       ELSE [bk EXCEPT !.Bids[o.price].Total = @ - o.amount + newAmount]
  ELSE IF o.price \notin DOMAIN bk.Asks THEN bk
       ELSE [bk EXCEPT !.Asks[o.price].Total = @ - o.amount + newAmount]

LevelExists(bk, o) ==
  IF o.side = Buy THEN o.price \in DOMAIN bk.Bids ELSE o.price \in DOMAIN bk.Asks

\* ---------------------------------------------------------- matching engine
\* The state of one ProcessOrder call: the order objects, the book, the
\* taker's remainingAmount and the MatchResult being built.
BookOf(b, a, bp, ap) == [Bids |-> b, Asks |-> a, BidPrices |-> bp, AskPrices |-> ap]

MatchState(m, bk, rem) ==
  [mem |-> m, bk |-> bk, rem |-> rem,
   Trades |-> <<>>, UpdatedOrders |-> <<>>, FilledOrders |-> <<>>]

\* MatchingEngine.matchOrders: the trade amount against the maker
matchOrders(maker, takerRemaining) ==
  Min(takerRemaining, maker.amount - maker.filled)

\* a createTrade that stamps the buy order's own price on the trade
createTradeAtBuyPrice(buyOrder, sellOrder, price, amount) ==
  [buy_order |-> buyOrder.id, sell_order |-> sellOrder.id,
   buy_user |-> buyOrder.user, sell_user |-> sellOrder.user,
   price |-> buyOrder.price, amount |-> amount]

\* MatchingEngine.createTrade
createTrade(buyOrder, sellOrder, price, amount) ==
  [buy_order |-> buyOrder.id, sell_order |-> sellOrder.id,
   buy_user |-> buyOrder.user, sell_user |-> sellOrder.user,
   price |-> price, amount |-> amount]

\* an updateMatchedOrder that leaves a filled maker in the book
updateMatchedOrderKeepMaker(s, id, tradeAmount) ==
  LET o         == s.mem[id]
      newFilled == o.filled + tradeAmount
  IN  IF newFilled >= o.amount
      THEN [s EXCEPT !.mem[id] = [o EXCEPT !.filled = newFilled, !.status = Filled],
                     !.FilledOrders = Append(@, id)]
      ELSE LET remainingAmount == o.amount - newFilled
               o2 == [o EXCEPT !.filled = newFilled, !.status = PartiallyFilled]
           IN  [s EXCEPT !.mem[id] =
                            [o2 EXCEPT !.amount = IF LevelExists(s.bk, o2)
                                                  THEN remainingAmount ELSE @],
                         !.bk = UpdateOrderAmount(@, o2, remainingAmount),
                         !.UpdatedOrders = Append(@, id)]

\* MatchingEngine.updateMatchedOrder
updateMatchedOrder(s, id, tradeAmount) ==
  LET o         == s.mem[id]
      newFilled == o.filled + tradeAmount
  IN  IF newFilled >= o.amount
      THEN LET o2 == [o EXCEPT !.filled = newFilled, !.status = Filled]
           IN  [s EXCEPT !.mem[id] = o2,
                         !.bk = RemoveOrder(@, o2),
                         !.FilledOrders = Append(@, id)]
      ELSE LET remainingAmount == o.amount - newFilled
               o2 == [o EXCEPT !.filled = newFilled, !.status = PartiallyFilled]
           IN  [s EXCEPT !.mem[id] =
                            [o2 EXCEPT !.amount = IF LevelExists(s.bk, o2)
                                                  THEN remainingAmount ELSE @],
                         !.bk = UpdateOrderAmount(@, o2, remainingAmount),
                         !.UpdatedOrders = Append(@, id)]

\* GetBestBid / GetBestAsk seen from the taker: the best level of the
\* opposing side, or none
HasBest(bk, side) ==
  IF side = Buy THEN bk.AskPrices # <<>> ELSE bk.BidPrices # <<>>

BestLevel(bk, side) ==
  IF side = Buy THEN bk.Asks[bk.AskPrices[1]] ELSE bk.Bids[bk.BidPrices[1]]

\* a price guard whose sell branch repeats the buy branch's GreaterThan
PriceStopsCopied(level, taker) ==
  /\ taker.type = Limit
  /\ level.Price > taker.price

\* the price guard of processLimitOrder; processMarketOrder has none
PriceStops(level, taker) ==
  /\ taker.type = Limit
  /\ IF taker.side = Buy THEN level.Price > taker.price
                         ELSE level.Price < taker.price

\* one iteration of the matching loop against the head of the best level
MatchStep(s, taker) ==
  LET level       == BestLevel(s.bk, taker.side)
      maker       == s.mem[Head(level.Orders)]
      tradeAmount == matchOrders(maker, s.rem)
      trade       == IF taker.side = Buy
                     THEN createTrade(taker, maker, level.Price, tradeAmount)
                     ELSE createTrade(maker, taker, level.Price, tradeAmount)
      s1          == [s EXCEPT !.Trades = Append(@, trade),
                               !.rem = @ - tradeAmount]
  IN  updateMatchedOrder(s1, maker.id, tradeAmount)

\* the for-loop of processLimitOrder / processMarketOrder
RECURSIVE MatchLoop(_, _)
MatchLoop(s, taker) ==
  IF s.rem <= 0 THEN s
  ELSE IF ~HasBest(s.bk, taker.side) THEN s
  ELSE IF PriceStops(BestLevel(s.bk, taker.side), taker) THEN s
  ELSE MatchLoop(MatchStep(s, taker), taker)

\* MatchingEngine.updateCurrentOrder
updateCurrentOrder(s, id) ==
  LET o == s.mem[id]
  IN  IF s.rem = 0
      THEN [s EXCEPT !.mem[id] = [o EXCEPT !.status = Filled, !.filled = o.amount],
                     !.FilledOrders = Append(@, id)]
      ELSE IF s.rem < o.amount
      THEN LET o2 == [o EXCEPT !.status = PartiallyFilled,
                               !.filled = o.amount - s.rem,
                               !.amount = s.rem]
           IN  [s EXCEPT !.mem[id] = o2,
                         !.bk = AddOrder(@, o2),
                         !.UpdatedOrders = Append(@, id)]
      ELSE LET o2 == [o EXCEPT !.status = Pending]
           IN  [s EXCEPT !.mem[id] = o2,
                         !.bk = AddOrder(@, o2),
                         !.UpdatedOrders = Append(@, id)]

\* MatchingEngine.processLimitOrder
processLimitOrder(m, bk, id) ==
  updateCurrentOrder(MatchLoop(MatchState(m, bk, m[id].amount), m[id]), id)

\* the tail of MatchingEngine.processMarketOrder: Filled when consumed,
\* Canceled when partly consumed, untouched when nothing was consumed
marketOrderDone(s, id) ==
  LET o == s.mem[id]
  IN  IF s.rem < o.amount
      THEN LET f == o.filled + (o.amount - s.rem)
           IN  IF s.rem = 0
               THEN [s EXCEPT !.mem[id] = [o EXCEPT !.filled = f, !.status = Filled],
                              !.FilledOrders = Append(@, id),
                              !.UpdatedOrders = Append(@, id)]
               ELSE [s EXCEPT !.mem[id] = [o EXCEPT !.filled = f, !.status = Canceled],
                              !.UpdatedOrders = Append(@, id)]
      ELSE s

\* a processMarketOrder that ends like processLimitOrder, with
\* updateCurrentOrder
processMarketOrderResting(m, bk, id) ==
  updateCurrentOrder(MatchLoop(MatchState(m, bk, m[id].amount), m[id]), id)

\* MatchingEngine.processMarketOrder
processMarketOrder(m, bk, id) ==
  marketOrderDone(MatchLoop(MatchState(m, bk, m[id].amount), m[id]), id)

\* MatchingEngine.ProcessOrder
ProcessOrder(m, bk, id) ==
  IF m[id].type = Limit THEN processLimitOrder(m, bk, id)
                        ELSE processMarketOrder(m, bk, id)

\* ---------------------------------------------------------- balance ledger
\* Every ledger operation returns [bal, err]; err = "" on success.  The
\* model methods run on the connection pool (m.conn), not on the session
\* handed to the Trans callback, so a statement that has run stays applied
\* when a later statement of the same callback returns an error.
HasRow(b, u, c) == <<u, c>> \in DOMAIN b

\* a FreezeBalance that writes the row before it compares available with
\* the amount
FreezeBalanceWriteFirst(b, u, c, amount) ==
  IF amount <= 0 THEN [bal |-> b, err |-> "freeze amount must be positive"]
  ELSE IF ~HasRow(b, u, c) THEN [bal |-> b, err |-> "ErrNotFound"]
  ELSE [bal |-> [b EXCEPT ![<<u, c>>] =
                   [available |-> @.available - amount, frozen |-> @.frozen + amount]],
        err |-> IF b[<<u, c>>].available < amount
                THEN "ErrInsufficientBalance" ELSE ""]

\* customBalanceModel.FreezeBalance
FreezeBalance(b, u, c, amount) ==
  IF amount <= 0 THEN [bal |-> b, err |-> "freeze amount must be positive"]
  ELSE IF ~HasRow(b, u, c) THEN [bal |-> b, err |-> "ErrNotFound"]
  ELSE IF b[<<u, c>>].available < amount
       THEN [bal |-> b, err |-> "ErrInsufficientBalance"]
  ELSE [bal |-> [b EXCEPT ![<<u, c>>] =
                   [available |-> @.available - amount, frozen |-> @.frozen + amount]],
        err |-> ""]

\* an UnfreezeBalance that does not compare frozen with the amount
UnfreezeBalanceUnchecked(b, u, c, amount) ==
  IF amount <= 0 THEN [bal |-> b, err |-> "unfreeze amount must be positive"]
  ELSE IF ~HasRow(b, u, c) THEN [bal |-> b, err |-> "ErrNotFound"]
  ELSE [bal |-> [b EXCEPT ![<<u, c>>] =
                   [available |-> @.available + amount, frozen |-> @.frozen - amount]],
        err |-> ""]

\* customBalanceModel.UnfreezeBalance
UnfreezeBalance(b, u, c, amount) ==
  IF amount <= 0 THEN [bal |-> b, err |-> "unfreeze amount must be positive"]
  ELSE IF ~HasRow(b, u, c) THEN [bal |-> b, err |-> "ErrNotFound"]
  ELSE IF b[<<u, c>>].frozen < amount
       THEN [bal |-> b, err |-> "insufficient frozen balance"]
  ELSE [bal |-> [b EXCEPT ![<<u, c>>] =
                   [available |-> @.available + amount, frozen |-> @.frozen - amount]],
        err |-> ""]

\* MatchingService.applyBalanceChange
applyBalanceChange(b, u, c, amount) ==
  IF amount = 0 THEN [bal |-> b, err |-> ""]
  ELSE IF ~HasRow(b, u, c)
       THEN [bal |-> Put(b, <<u, c>>, [available |-> amount, frozen |-> 0]),
             err |-> ""]
  ELSE IF b[<<u, c>>].available + amount < 0
       THEN [bal |-> b, err |-> "insufficient balance after trade execution"]
  ELSE [bal |-> [b EXCEPT ![<<u, c>>].available = @ + amount], err |-> ""]

\* ------------------------------------------------------------- settlement
\* the keys and the aggregated deltas of updateUserBalances
RECURSIVE BalanceChange(_, _)
BalanceChange(ts, key) ==
  IF ts = <<>> THEN 0
  ELSE LET t          == Head(ts)
           totalValue == t.price * t.amount
       IN  BalanceChange(Tail(ts), key)
           + (IF key = <<t.buy_user, Quote>>  THEN 0 - totalValue ELSE 0)
           + (IF key = <<t.buy_user, Base>>   THEN t.amount       ELSE 0)
           + (IF key = <<t.sell_user, Base>>  THEN 0 - t.amount   ELSE 0)
           + (IF key = <<t.sell_user, Quote>> THEN totalValue     ELSE 0)

ChangeKeys(ts) ==
  UNION {{<<ts[i].buy_user, Quote>>, <<ts[i].buy_user, Base>>,
          <<ts[i].sell_user, Base>>, <<ts[i].sell_user, Quote>>} : i \in 1..Len(ts)}

\* the orders in which a Go map of these keys can be ranged over
KeyOrders(keys) ==
  {q \in [1..Cardinality(keys) -> keys] : \A i, j \in DOMAIN q : i # j => q[i] # q[j]}

\* MatchingService.updateUserBalances: the deltas applied in map order,
\* stopping at the first error
RECURSIVE ApplyChanges(_, _, _)
ApplyChanges(b, ts, order) ==
  IF order = <<>> THEN [bal |-> b, err |-> ""]
  ELSE LET k == Head(order)
           r == applyBalanceChange(b, k[1], k[2], BalanceChange(ts, k))
       IN  IF r.err # "" THEN r ELSE ApplyChanges(r.bal, ts, Tail(order))

updateUserBalances(b, ts, order) == ApplyChanges(b, ts, order)

\* MatchingService.unfreezeCompletedOrderBalances
RECURSIVE unfreezeCompletedOrderBalances(_, _, _)
unfreezeCompletedOrderBalances(b, m, filledOrders) ==
  IF filledOrders = <<>> THEN [bal |-> b, err |-> ""]
  ELSE LET o == m[Head(filledOrders)]
       IN  IF o.status # Filled
           THEN unfreezeCompletedOrderBalances(b, m, Tail(filledOrders))
           ELSE LET currency       == IF o.side = Buy THEN Quote ELSE Base
                    unfreezeAmount == IF o.side = Buy THEN o.amount * o.price
                                                      ELSE o.amount
                    r == UnfreezeBalance(b, o.user, currency, unfreezeAmount)
                IN  IF r.err # "" THEN r
                    ELSE unfreezeCompletedOrderBalances(r.bal, m, Tail(filledOrders))

\* MatchingService.updateOrderInDB over matchResult.UpdatedOrders
RECURSIVE updateOrdersInDB(_, _, _)
updateOrdersInDB(d, m, ids) ==
  IF ids = <<>> THEN d
  ELSE updateOrdersInDB([d EXCEPT ![Head(ids)] = m[Head(ids)]], m, Tail(ids))

\* MatchingService.executeTrades; s is the MatchResult with the order objects
executeTrades(s, d, b, tr, order) ==
  LET tr1 == tr \o s.Trades
      d1  == updateOrdersInDB(d, s.mem, s.UpdatedOrders)
      r1  == updateUserBalances(b, s.Trades, order)
      r2  == unfreezeCompletedOrderBalances(r1.bal, s.mem, s.FilledOrders)
  IN  IF r1.err # ""
      THEN [db |-> d1, bal |-> r1.bal, trades |-> tr1, err |-> r1.err]
      ELSE [db |-> d1, bal |-> r2.bal, trades |-> tr1, err |-> r2.err]

\* MatchingService.ProcessOrderWithMatching after the engine returned s
Settle(s, id, d, b, tr, order) ==
  LET e == IF Len(s.Trades) > 0 THEN executeTrades(s, d, b, tr, order)
           ELSE [db |-> d, bal |-> b, trades |-> tr, err |-> ""]
  IN  IF e.err # "" THEN e
      ELSE [e EXCEPT !.db[id] = s.mem[id]]

\* ------------------------------------------------------------- lifecycle
NewOrder(id, u, type, side, amount, price) ==
  [id |-> id, user |-> u, type |-> type, side |-> side, amount |-> amount,
   price |-> price, filled |-> 0, status |-> Pending,
   req |-> amount]   \* history: the Amount of the request, never written again

\* a calculateFreezeAmount that freezes the quantity for every buy
calculateFreezeAmountQuantity(type, side, amount, price) ==
  IF side = Buy THEN [currency |-> Quote, amount |-> amount]
  ELSE [currency |-> Base, amount |-> amount]

\* CreateOrderLogic.calculateFreezeAmount
calculateFreezeAmount(type, side, amount, price) ==
  IF side = Buy
  THEN IF type = Limit THEN [currency |-> Quote, amount |-> amount * price]
                       ELSE [currency |-> Quote, amount |-> amount]
  ELSE [currency |-> Base, amount |-> amount]

\* CancelOrderLogic.calculateUnfreezeAmount on the persisted row
calculateUnfreezeAmount(o) ==
  LET remainingAmount == o.amount - o.filled
  IN  IF remainingAmount <= 0 THEN [currency |-> "", amount |-> 0]
      ELSE IF o.side = Buy
      THEN IF o.type = Limit
           THEN [currency |-> Quote, amount |-> remainingAmount * o.price]
           ELSE [currency |-> Quote, amount |-> remainingAmount]
      ELSE [currency |-> Base, amount |-> remainingAmount]

NoResult == [op |-> "", id |-> 0, err |-> "", Trades |-> <<>>,
             UpdatedOrders |-> <<>>, FilledOrders |-> <<>>]

Book == BookOf(Bids, Asks, BidPrices, AskPrices)

SetBook(bk) ==
  /\ Bids' = bk.Bids
  /\ Asks' = bk.Asks
  /\ BidPrices' = bk.BidPrices
  /\ AskPrices' = bk.AskPrices

\* DepositLogic.Deposit
Deposit(u, c, a) ==
  /\ ndep < MaxDeposits
  /\ bal' = IF HasRow(bal, u, c)
            THEN [bal EXCEPT ![<<u, c>>].available = @ + a]
            ELSE Put(bal, <<u, c>>, [available |-> a, frozen |-> 0])
  /\ deposited' = [deposited EXCEPT ![<<u, c>>] = @ + a]
  /\ ndep' = ndep + 1
  /\ res' = [NoResult EXCEPT !.op = "Deposit"]
  /\ UNCHANGED <<mem, db, Bids, Asks, BidPrices, AskPrices, trades>>
  /\ UNCHANGED concVars

\* CreateOrderLogic.CreateOrder, rejected by FreezeBalance
CreateOrderRejected(u, type, side, amount, price) ==
  LET fz == calculateFreezeAmount(type, side, amount, price)
      r  == FreezeBalance(bal, u, fz.currency, fz.amount)
  IN  /\ Len(db) < MaxOrders
      /\ r.err # ""
      /\ bal' = r.bal
      /\ res' = [NoResult EXCEPT !.op = "CreateOrder", !.err = r.err]
      /\ UNCHANGED <<mem, db, Bids, Asks, BidPrices, AskPrices, trades,
                     deposited, ndep>>
      /\ UNCHANGED concVars

\* CreateOrderLogic.CreateOrder on a valid request: freeze, insert the row,
\* match, settle
PlaceOrder(u, type, side, amount, price) ==
  LET fz    == calculateFreezeAmount(type, side, amount, price)
      r     == FreezeBalance(bal, u, fz.currency, fz.amount)
      id    == Len(db) + 1
      order == NewOrder(id, u, type, side, amount, price)
      s     == ProcessOrder(Append(mem, order), Book, id)
  IN  /\ r.err = ""
      /\ \E ko \in KeyOrders(ChangeKeys(s.Trades)) :
           LET e == Settle(s, id, Append(db, order), r.bal, trades, ko)
           IN  /\ db' = e.db
               /\ bal' = e.bal
               /\ trades' = e.trades
               /\ res' = [op |-> "CreateOrder", id |-> id, err |-> e.err,
                          Trades |-> s.Trades,
                          UpdatedOrders |-> s.UpdatedOrders,
                          FilledOrders |-> s.FilledOrders]
      /\ mem' = s.mem
      /\ SetBook(s.bk)
      /\ UNCHANGED <<deposited, ndep>>
      /\ UNCHANGED concVars

\* CreateOrderLogic.CreateOrder, while fewer than MaxOrders rows exist
CreateOrder(u, type, side, amount, price) ==
  /\ Len(db) < MaxOrders
  /\ PlaceOrder(u, type, side, amount, price)

\* a CreateOrder that returns the error of ProcessOrderWithMatching
CreateOrderResponseStrict(m, r) ==
  [err |-> r.err, ID |-> r.id, Amount |-> m[r.id].amount,
   FilledAmount |-> m[r.id].filled, Status |-> m[r.id].status]

\* what CreateOrder returns once the placement transaction has committed: the
\* error of ProcessOrderWithMatching (r.err) is only logged, and the response
\* is built from the order object the engine worked on
CreateOrderResponse(m, r) ==
  [err |-> "", ID |-> r.id, Amount |-> m[r.id].amount,
   FilledAmount |-> m[r.id].filled, Status |-> m[r.id].status]

\* the trading_pairs table: the status of each symbol that has a row
Symbol == "BTC/USDT"
PairStatus == [sym \in {"BTC/USDT", "ETH/USDT"} |->
                 IF sym = "BTC/USDT" THEN 1 ELSE 2]

\* CreateOrderLogic.validateOrderRequest; amounts and prices are whole units
\* inside the pair's scale and limits
validateOrderRequest(type, side, amount, price) ==
  IF type # Limit /\ type # Market THEN "ErrInvalidOrderType"
  ELSE IF side # Buy /\ side # Sell THEN "ErrInvalidOrderSide"
  ELSE IF amount <= 0 THEN "ErrInvalidAmount"
  ELSE IF type = Limit /\ price <= 0 THEN "price must be positive"
  ELSE ""

\* the checks of CreateOrder ahead of the transaction
PlacementError(sym, type, side, amount, price) ==
  IF sym \notin DOMAIN PairStatus THEN "ErrTradingPairNotFound"
  ELSE IF PairStatus[sym] # 1 THEN "ErrTradingPairDisabled"
  ELSE validateOrderRequest(type, side, amount, price)

\* CreateOrderLogic.CreateOrder, rejected ahead of the transaction
CreateOrderInvalid(u, sym, type, side, amount, price) ==
  LET err == PlacementError(sym, type, side, amount, price)
  IN  /\ err # ""
      /\ res' = [NoResult EXCEPT !.op = "CreateOrder", !.err = err]
      /\ UNCHANGED <<mem, db, Bids, Asks, BidPrices, AskPrices, bal, trades,
                     deposited, ndep>>
      /\ UNCHANGED concVars

\* CreateOrderLogic.CreateOrder when OrderModel.Insert returns an error:
\* FreezeBalance has run on m.conn, outside the session TransactCtx rolls back
CreateOrderInsertFails(u, type, side, amount, price) ==
  LET fz == calculateFreezeAmount(type, side, amount, price)
      r  == FreezeBalance(bal, u, fz.currency, fz.amount)
  IN  /\ Len(db) < MaxOrders
      /\ r.err = ""
      /\ bal' = r.bal
      /\ res' = [NoResult EXCEPT !.op = "CreateOrder", !.err = "insert failed"]
      /\ UNCHANGED <<mem, db, Bids, Asks, BidPrices, AskPrices, trades,
                     deposited, ndep>>
      /\ UNCHANGED concVars

\* CancelOrderLogic.CancelOrder, rejected before any write
CancelOrderRejected(u, id) ==
  LET err == IF id > Len(db) THEN "ErrOrderNotFound"
             ELSE IF db[id].user # u THEN "ErrForbidden"
             ELSE IF db[id].status = Canceled THEN "ErrOrderAlreadyCanceled"
             ELSE IF db[id].status = Filled THEN "ErrOrderAlreadyFilled"
             ELSE ""
  IN  /\ err # ""
      /\ res' = [NoResult EXCEPT !.op = "CancelOrder", !.err = err]
      /\ UNCHANGED <<mem, db, Bids, Asks, BidPrices, AskPrices, bal, trades,
                     deposited, ndep>>
      /\ UNCHANGED concVars

\* CancelOrderLogic.CancelOrder: UpdateStatus, then UnfreezeBalance
CancelOrder(u, id) ==
  /\ id <= Len(db)
  /\ db[id].user = u
  /\ db[id].status \notin {Canceled, Filled}
  /\ LET uf == calculateUnfreezeAmount(db[id])
         r  == IF uf.amount # 0
               THEN UnfreezeBalance(bal, u, uf.currency, uf.amount)
               ELSE [bal |-> bal, err |-> ""]
     IN  /\ db' = [db EXCEPT ![id].status = Canceled]
         /\ bal' = r.bal
         /\ res' = [NoResult EXCEPT !.op = "CancelOrder", !.id = id, !.err = r.err]
  /\ UNCHANGED <<mem, Bids, Asks, BidPrices, AskPrices, trades, deposited, ndep>>
  /\ UNCHANGED concVars

\* ---------------------------------------------------------- specification
Init ==
  /\ mem = <<>>
  /\ db = <<>>
  /\ Bids = <<>>
  /\ Asks = <<>>
  /\ BidPrices = <<>>
  /\ AskPrices = <<>>
  /\ bal = <<>>
  /\ trades = <<>>
  /\ deposited = [k \in Users \X Currencies |-> 0]
  /\ ndep = 0
  /\ res = NoResult
  /\ cpc = <<>>
  /\ cord = <<>>
  /\ crem = <<>>
  /\ cpeek = <<>>
  /\ ctrades = <<>>
  /\ orderBooks = <<>>
  /\ mutex = NewRWMutex

OrderInputs ==
  {<<Limit, sd, a, p>> : sd \in {Buy, Sell}, a \in 1..MaxAmt, p \in 1..MaxPrice}
  \cup {<<Market, sd, a, 0>> : sd \in {Buy, Sell}, a \in 1..MaxAmt}

\* requests that fail a check of CreateOrder: unknown pair, disabled pair,
\* bad type, bad side, amount 0, limit price 0
InvalidRequests ==
  {<<"DOGE/USDT", Limit, Buy, 1, 1>>, <<"ETH/USDT", Limit, Buy, 1, 1>>,
   <<Symbol, 3, Buy, 1, 1>>, <<Symbol, Limit, 3, 1, 1>>,
   <<Symbol, Limit, Sell, 0, 1>>, <<Symbol, Limit, Buy, 1, 0>>}

Next ==
  \/ \E u \in Users, c \in Currencies, a \in DepositAmounts : Deposit(u, c, a)
  \/ \E u \in Users, i \in OrderInputs : CreateOrder(u, i[1], i[2], i[3], i[4])
  \/ \E u \in Users, i \in OrderInputs : CreateOrderRejected(u, i[1], i[2], i[3], i[4])
  \/ \E u \in Users, id \in 1..MaxOrders : CancelOrder(u, id)
  \/ \E u \in Users, id \in 1..(MaxOrders + 1) : CancelOrderRejected(u, id)

Spec == Init /\ [][Next]_vars

\* ------------------------------------------------- order placement alone
\* Deposits and CreateOrder with every way it can fail: a check ahead of
\* the transaction, FreezeBalance, or OrderModel.Insert.
NextPlace ==
  \/ \E u \in Users, c \in Currencies, a \in DepositAmounts : Deposit(u, c, a)
  \/ /\ Len(db) < MaxPlaced
     /\ \E u \in Users, i \in OrderInputs : CreateOrder(u, i[1], i[2], i[3], i[4])
  \/ \E u \in Users, i \in OrderInputs : CreateOrderRejected(u, i[1], i[2], i[3], i[4])
  \/ \E u \in Users, q \in InvalidRequests :
       CreateOrderInvalid(u, q[1], q[2], q[3], q[4], q[5])
  \/ /\ Len(db) < MaxPlaced
     /\ \E u \in Users, i \in OrderInputs :
          CreateOrderInsertFails(u, i[1], i[2], i[3], i[4])

SpecPlace == Init /\ [][NextPlace]_vars

\* ------------------------------------------- three placements in a row
\* Deposits and up to MaxLongOrders limit orders at price 1: long enough for
\* an order to be matched again after a settlement that failed.
LongInputs == {<<Limit, sd, a, 1>> : sd \in {Buy, Sell}, a \in 1..MaxAmt}

NextLong ==
  \/ \E u \in Users, c \in Currencies, a \in DepositAmounts : Deposit(u, c, a)
  \/ /\ Len(db) < MaxLongOrders
     /\ \E u \in Users, i \in LongInputs : PlaceOrder(u, i[1], i[2], i[3], i[4])

SpecLong == Init /\ [][NextLong]_vars

\* ------------------------------------------------------- the ledger alone
\* FreezeBalance and UnfreezeBalance called one after the other on the rows
\* that deposits created, with every kind of argument: amounts <= 0,
\* accounts without a row, amounts above the sub-balance.
LedgerAmounts == (0 - 1)..MaxAmt

\* the outcome of a ledger call, with the arguments of the call
LedgerResult(op, u, c, a, err) ==
  [op |-> op, id |-> 0, err |-> err, Trades |-> <<>>, UpdatedOrders |-> <<>>,
   FilledOrders |-> <<>>, user |-> u, currency |-> c, amount |-> a]

DoFreezeBalance(u, c, a) ==
  LET r == FreezeBalance(bal, u, c, a)
  IN  /\ bal' = r.bal
      /\ res' = LedgerResult("FreezeBalance", u, c, a, r.err)
      /\ UNCHANGED <<mem, db, Bids, Asks, BidPrices, AskPrices, trades,
                     deposited, ndep>>
      /\ UNCHANGED concVars

DoUnfreezeBalance(u, c, a) ==
  LET r == UnfreezeBalance(bal, u, c, a)
  IN  /\ bal' = r.bal
      /\ res' = LedgerResult("UnfreezeBalance", u, c, a, r.err)
      /\ UNCHANGED <<mem, db, Bids, Asks, BidPrices, AskPrices, trades,
                     deposited, ndep>>
      /\ UNCHANGED concVars

NextLedger ==
  \/ \E u \in Users, c \in Currencies, a \in DepositAmounts : Deposit(u, c, a)
  \/ \E u \in Users, c \in Currencies, a \in LedgerAmounts : DoFreezeBalance(u, c, a)
  \/ \E u \in Users, c \in Currencies, a \in LedgerAmounts : DoUnfreezeBalance(u, c, a)

SpecLedger == Init /\ [][NextLedger]_vars

\* ------------------------------------------------- the engine on its own
\* MatchingEngine.ProcessOrder called with a fresh order, as CreateOrder does
\* once the freeze and the insert succeeded (and as the engine's tests do).
\* The engine only copies UserID into the trades; the orders of this
\* specification are placed by the users in turn.
Owner(id) == ((id - 1) % Cardinality(Users)) + 1

Submit(type, side, amount, price) ==
  LET id    == Len(mem) + 1
      order == NewOrder(id, Owner(id), type, side, amount, price)
      s     == ProcessOrder(Append(mem, order), Book, id)
  IN  /\ Len(mem) < MaxSubmits
      /\ mem' = s.mem
      /\ SetBook(s.bk)
      /\ res' = [op |-> "ProcessOrder", id |-> id, err |-> "",
                 Trades |-> s.Trades,
                 UpdatedOrders |-> s.UpdatedOrders,
                 FilledOrders |-> s.FilledOrders]
      /\ trades' = trades \o s.Trades
      /\ UNCHANGED <<db, bal, deposited, ndep>>
      /\ UNCHANGED concVars

NextEngine ==
  \E i \in OrderInputs : Submit(i[1], i[2], i[3], i[4])

SpecEngine == Init /\ [][NextEngine]_vars

\* ------------------------------------------------ the book's own methods
\* OrderBook.AddOrder, RemoveOrder and Clear called directly, one at a time,
\* between ProcessOrder calls; RemoveOrder is also called for orders that
\* are not in the book.
DoAddOrder(side, amount, price) ==
  LET id    == Len(mem) + 1
      order == NewOrder(id, Owner(id), Limit, side, amount, price)
  IN  /\ Len(mem) < MaxBookOrders
      /\ mem' = Append(mem, order)
      /\ SetBook(AddOrder(Book, order))
      /\ res' = [NoResult EXCEPT !.op = "AddOrder", !.id = id]
      /\ UNCHANGED <<db, bal, trades, deposited, ndep>>
      /\ UNCHANGED concVars

DoRemoveOrder(id) ==
  /\ id \in 1..Len(mem)
  /\ SetBook(RemoveOrder(Book, mem[id]))
  /\ res' = [NoResult EXCEPT !.op = "RemoveOrder", !.id = id]
  /\ UNCHANGED <<mem, db, bal, trades, deposited, ndep>>
  /\ UNCHANGED concVars

\* OrderBook.Clear
Clear ==
  /\ SetBook(NewOrderBook)
  /\ res' = [NoResult EXCEPT !.op = "Clear"]
  /\ UNCHANGED <<mem, db, bal, trades, deposited, ndep>>
  /\ UNCHANGED concVars

NextBook ==
  \/ /\ Len(mem) < MaxBookOrders
     /\ \E i \in OrderInputs : Submit(i[1], i[2], i[3], i[4])
  \/ \E sd \in {Buy, Sell}, a \in 1..MaxAmt, p \in 1..MaxPrice : DoAddOrder(sd, a, p)
  \/ \E id \in 1..MaxBookOrders : DoRemoveOrder(id)
  \/ Clear

SpecBook == Init /\ [][NextBook]_vars

\* ------------------------------------------------- books of several symbols
\* The engine keeps one OrderBook per symbol in orderBooks, each with its own
\* mutex.  ProcessOrder, CancelOrder and GetMarketDepth get the book of the
\* order's or the request's symbol from GetOrderBook and call only that
\* book's methods, which lock only that book's mutex.
Symbols == DOMAIN PairStatus

\* a GetOrderBook that hands out the book of one symbol for every symbol
GetOrderBookShared(obs, sym) ==
  [orderBooks |-> IF Symbol \in DOMAIN obs THEN obs ELSE Put(obs, Symbol, NewOrderBook),
   book |-> Symbol]

\* MatchingEngine.GetOrderBook: the map after the call and the key of the
\* book it returns
GetOrderBook(obs, sym) ==
  [orderBooks |-> IF sym \in DOMAIN obs THEN obs ELSE Put(obs, sym, NewOrderBook),
   book |-> sym]

\* the outcome of an engine call on symbol sym that took the mutexes of the
\* books in locks
SymbolResult(op, id, sym, ts, locks) ==
  [op |-> op, id |-> id, err |-> "", Trades |-> ts, UpdatedOrders |-> <<>>,
   FilledOrders |-> <<>>, symbol |-> sym, locks |-> locks]

\* MatchingEngine.ProcessOrder of an order of symbol sym
ProcessOrderOn(sym, type, side, amount, price) ==
  LET id    == Len(mem) + 1
      order == NewOrder(id, Owner(id), type, side, amount, price) @@ [symbol |-> sym]
      g     == GetOrderBook(orderBooks, order.symbol)
      s     == ProcessOrder(Append(mem, order), g.orderBooks[g.book], id)
  IN  /\ Len(mem) < MaxBookOrders
      /\ mem' = s.mem
      /\ orderBooks' = [g.orderBooks EXCEPT ![g.book] = s.bk]
      /\ trades' = trades \o s.Trades
      /\ res' = SymbolResult("ProcessOrder", id, sym, s.Trades, {g.book})
      /\ UNCHANGED <<db, Bids, Asks, BidPrices, AskPrices, bal, deposited, ndep>>
      /\ UNCHANGED <<cpc, cord, crem, cpeek, ctrades, mutex>>

\* MatchingEngine.CancelOrder
CancelOrderOn(id) ==
  LET g == GetOrderBook(orderBooks, mem[id].symbol)
  IN  /\ orderBooks' = [g.orderBooks EXCEPT ![g.book] = RemoveOrder(@, mem[id])]
      /\ mem' = [mem EXCEPT ![id].status = Canceled]
      /\ res' = SymbolResult("CancelOrder", id, mem[id].symbol, <<>>, {g.book})
      /\ UNCHANGED <<db, Bids, Asks, BidPrices, AskPrices, bal, trades, deposited, ndep>>
      /\ UNCHANGED <<cpc, cord, crem, cpeek, ctrades, mutex>>

\* MatchingEngine.GetMarketDepth
GetMarketDepthOn(sym) ==
  LET g == GetOrderBook(orderBooks, sym)
  IN  /\ orderBooks' = g.orderBooks
      /\ res' = SymbolResult("GetMarketDepth", 0, sym, <<>>, {g.book})
      /\ UNCHANGED <<mem, db, Bids, Asks, BidPrices, AskPrices, bal, trades,
                     deposited, ndep>>
      /\ UNCHANGED <<cpc, cord, crem, cpeek, ctrades, mutex>>

NextSymbols ==
  \/ \E sym \in Symbols, i \in LongInputs : ProcessOrderOn(sym, i[1], i[2], i[3], i[4])
  \/ \E id \in 1..Len(mem) : CancelOrderOn(id)
  \/ \E sym \in Symbols : GetMarketDepthOn(sym)

SpecSymbols == Init /\ [][NextSymbols]_vars

\* -------------------------------------------- concurrent ProcessOrder calls
\* MaxProcs request goroutines are inside MatchingEngine.ProcessOrder on the
\* one book.  ProcessOrder holds no lock of its own: GetBestBid / GetBestAsk
\* take the book's read lock and release it, RemoveOrder, UpdateOrderAmount
\* and AddOrder each take and release the write lock, and matchOrders and
\* updateMatchedOrder read and write the maker's fields under no lock.  A
\* step below is one such stretch; goroutine p starts after goroutine p - 1.
Procs == 1..MaxProcs

NoPeek == [maker |-> 0, amount |-> 0]

InitConc ==
  /\ mem = <<>>
  /\ db = <<>>
  /\ Bids = <<>>
  /\ Asks = <<>>
  /\ BidPrices = <<>>
  /\ AskPrices = <<>>
  /\ bal = <<>>
  /\ trades = <<>>
  /\ deposited = [k \in Users \X Currencies |-> 0]
  /\ ndep = 0
  /\ res = NoResult
  /\ cpc = [p \in Procs |-> "idle"]
  /\ cord = [p \in Procs |-> 0]
  /\ crem = [p \in Procs |-> 0]
  /\ cpeek = [p \in Procs |-> NoPeek]
  /\ ctrades = <<>>
  /\ orderBooks = <<>>
  /\ mutex = NewRWMutex

\* ProcessOrder is entered: remainingAmount := orderAmount
Begin(p, type, side, amount, price) ==
  LET id == Len(mem) + 1
  IN  /\ cpc[p] = "idle"
      /\ \A q \in Procs : q < p => cpc[q] # "idle"
      /\ mem' = Append(mem, NewOrder(id, Owner(id), type, side, amount, price))
      /\ cord' = [cord EXCEPT ![p] = id]
      /\ crem' = [crem EXCEPT ![p] = amount]
      /\ cpc' = [cpc EXCEPT ![p] = "loop"]
      /\ UNCHANGED <<Bids, Asks, BidPrices, AskPrices, cpeek, ctrades>>
      /\ UNCHANGED seqVars

\* the loop test, GetBestBid / GetBestAsk, Front(), matchOrders, createTrade
Peek(p) ==
  LET taker == mem[cord[p]]
  IN  /\ cpc[p] = "loop"
      /\ IF crem[p] <= 0 \/ ~HasBest(Book, taker.side)
            \/ PriceStops(BestLevel(Book, taker.side), taker)
         THEN /\ cpc' = [cpc EXCEPT ![p] = "rest"]
              /\ UNCHANGED <<crem, cpeek, ctrades>>
         ELSE LET level       == BestLevel(Book, taker.side)
                  maker       == mem[Head(level.Orders)]
                  tradeAmount == matchOrders(maker, crem[p])
                  trade       == IF taker.side = Buy
                                 THEN createTrade(taker, maker, level.Price, tradeAmount)
                                 ELSE createTrade(maker, taker, level.Price, tradeAmount)
              IN  /\ ctrades' = Append(ctrades, trade)
                  /\ crem' = [crem EXCEPT ![p] = @ - tradeAmount]
                  /\ cpeek' = [cpeek EXCEPT ![p] =
                                 [maker |-> maker.id, amount |-> tradeAmount]]
                  /\ cpc' = [cpc EXCEPT ![p] = "update"]
      /\ UNCHANGED <<mem, Bids, Asks, BidPrices, AskPrices, cord>>
      /\ UNCHANGED seqVars

\* updateMatchedOrder on the maker taken at the peek
Update(p) ==
  LET s == updateMatchedOrder(MatchState(mem, Book, crem[p]),
                              cpeek[p].maker, cpeek[p].amount)
  IN  /\ cpc[p] = "update"
      /\ mem' = s.mem
      /\ SetBook(s.bk)
      /\ cpeek' = [cpeek EXCEPT ![p] = NoPeek]
      /\ cpc' = [cpc EXCEPT ![p] = "loop"]
      /\ UNCHANGED <<cord, crem, ctrades>>
      /\ UNCHANGED seqVars

\* updateCurrentOrder, or the tail of processMarketOrder
Rest(p) ==
  LET s0 == MatchState(mem, Book, crem[p])
      s  == IF mem[cord[p]].type = Limit THEN updateCurrentOrder(s0, cord[p])
                                         ELSE marketOrderDone(s0, cord[p])
  IN  /\ cpc[p] = "rest"
      /\ mem' = s.mem
      /\ SetBook(s.bk)
      /\ cpc' = [cpc EXCEPT ![p] = "done"]
      /\ UNCHANGED <<cord, crem, cpeek, ctrades>>
      /\ UNCHANGED seqVars

NextConc ==
  \/ \E p \in Procs, i \in OrderInputs : Begin(p, i[1], i[2], i[3], i[4])
  \/ \E p \in Procs : Peek(p)
  \/ \E p \in Procs : Update(p)
  \/ \E p \in Procs : Rest(p)

SpecConc == InitConc /\ [][NextConc]_vars

\* ------------------------------------------ one ProcessOrder call at a time
\* The same steps with the calls one after the other: a call is entered only
\* when no other call is inside ProcessOrder, and a goroutine that is inside
\* keeps running (the loop has no blocking statement but the book's mutex,
\* which no other goroutine holds).
BeginAlone(p, type, side, amount, price) ==
  /\ \A q \in Procs : cpc[q] \in {"idle", "done"}
  /\ Begin(p, type, side, amount, price)

NextRun ==
  \/ \E p \in Procs, i \in OrderInputs : BeginAlone(p, i[1], i[2], i[3], i[4])
  \/ \E p \in Procs : Peek(p)
  \/ \E p \in Procs : Update(p)
  \/ \E p \in Procs : Rest(p)

SpecRun ==
  /\ InitConc
  /\ [][NextRun]_vars
  /\ \A p \in Procs : WF_vars(Peek(p) \/ Update(p) \/ Rest(p))

\* ------------------------------------- concurrent calls on one account
\* Request goroutines call FreezeBalance, UnfreezeBalance (cancel) and
\* applyBalanceChange (settlement) on the account Acct.  Each call reads the
\* row with FindByUserIDAndCurrency and later writes absolute values with
\* UpdateBalance; both statements run on the connection pool, outside any
\* transaction and with no row lock, so other calls run between them.
\* Here cord[p] is the operation of goroutine p, crem[p] its amount and
\* cpeek[p] the row it read.
Acct == <<1, Quote>>

BalanceOps ==
  {<<"FreezeBalance", a>> : a \in 1..MaxAmt}
  \cup {<<"UnfreezeBalance", a>> : a \in 1..MaxAmt}
  \cup {<<"applyBalanceChange", a>> : a \in ((0 - MaxAmt)..MaxAmt) \ {0}}

InitAcct ==
  /\ mem = <<>>
  /\ db = <<>>
  /\ Bids = <<>>
  /\ Asks = <<>>
  /\ BidPrices = <<>>
  /\ AskPrices = <<>>
  /\ bal = <<>>
  /\ trades = <<>>
  /\ deposited = [k \in Users \X Currencies |-> 0]
  /\ ndep = 0
  /\ res = NoResult
  /\ cpc = [p \in Procs |-> "idle"]
  /\ cord = [p \in Procs |-> ""]
  /\ crem = [p \in Procs |-> 0]
  /\ cpeek = [p \in Procs |-> [available |-> 0, frozen |-> 0]]
  /\ ctrades = <<>>
  /\ orderBooks = <<>>
  /\ mutex = NewRWMutex

\* DepositLogic.Deposit into the account, before the concurrent calls
DepositAcct(a) ==
  /\ \A p \in Procs : cpc[p] = "idle"
  /\ ndep < MaxDeposits
  /\ bal' = IF HasRow(bal, Acct[1], Acct[2])
            THEN [bal EXCEPT ![Acct].available = @ + a]
            ELSE Put(bal, Acct, [available |-> a, frozen |-> 0])
  /\ deposited' = [deposited EXCEPT ![Acct] = @ + a]
  /\ ndep' = ndep + 1
  /\ res' = [NoResult EXCEPT !.op = "Deposit"]
  /\ UNCHANGED <<mem, db, Bids, Asks, BidPrices, AskPrices, trades>>
  /\ UNCHANGED concVars

\* the call is entered and reads the row: FindByUserIDAndCurrency
FindByUserIDAndCurrency(p, op, a) ==
  /\ cpc[p] = "idle"
  /\ \A q \in Procs : q < p => cpc[q] # "idle"
  /\ HasRow(bal, Acct[1], Acct[2])
  /\ cord' = [cord EXCEPT ![p] = op]
  /\ crem' = [crem EXCEPT ![p] = a]
  /\ cpeek' = [cpeek EXCEPT ![p] = bal[Acct]]
  /\ cpc' = [cpc EXCEPT ![p] = "read"]
  /\ UNCHANGED <<mem, Bids, Asks, BidPrices, AskPrices, ctrades>>
  /\ UNCHANGED seqVars

\* the rest of the call: its check on the row it read, then UpdateBalance
\* with the values computed from that row
UpdateBalance(p) ==
  LET row == cpeek[p]
      a   == crem[p]
      new == IF cord[p] = "FreezeBalance"
             THEN IF row.available < a THEN row
                  ELSE [available |-> row.available - a, frozen |-> row.frozen + a]
             ELSE IF cord[p] = "UnfreezeBalance"
             THEN IF row.frozen < a THEN row
                  ELSE [available |-> row.available + a, frozen |-> row.frozen - a]
             ELSE IF row.available + a < 0 THEN row
                  ELSE [available |-> row.available + a, frozen |-> row.frozen]
  IN  /\ cpc[p] = "read"
      /\ bal' = IF new = row THEN bal ELSE [bal EXCEPT ![Acct] = new]
      /\ cpc' = [cpc EXCEPT ![p] = "done"]
      /\ UNCHANGED <<db, trades, deposited, ndep, res>>
      /\ UNCHANGED <<mem, Bids, Asks, BidPrices, AskPrices, cord, crem, cpeek, ctrades>>
      /\ UNCHANGED <<orderBooks, mutex>>

NextAcct ==
  \/ \E a \in DepositAmounts : DepositAcct(a)
  \/ \E p \in Procs, o \in BalanceOps : FindByUserIDAndCurrency(p, o[1], o[2])
  \/ \E p \in Procs : UpdateBalance(p)

SpecAcct == InitAcct /\ [][NextAcct]_vars

\* ------------------------------------------------------------------ claims
Range(f) == {f[x] : x \in DOMAIN f}

\* ids of the orders queued in the book
SideIds(ladder) == UNION {Range(ladder[p].Orders) : p \in DOMAIN ladder}
BookIds == SideIds(Bids) \cup SideIds(Asks)

RECURSIVE SumOver(_, _)
SumOver(S, f) ==
  IF S = {} THEN 0
  ELSE LET x == CHOOSE y \in S : TRUE IN f[x] + SumOver(S \ {x}, f)

Holding(u, c) ==
  IF HasRow(bal, u, c) THEN bal[<<u, c>>].available + bal[<<u, c>>].frozen ELSE 0

\* C1 - Conservation: for each currency the sum over all users of
\* available + frozen equals the total deposited (no withdrawals are made);
\* freeze, unfreeze, matching and settlement never change that sum.
Conservation ==
  \A c \in Currencies :
    SumOver(Users, [u \in Users |-> Holding(u, c)])
      = SumOver(Users, [u \in Users |-> deposited[<<u, c>>]])

Terminal(id) ==
  \/ db[id].status \in {Filled, Canceled}
  \/ mem[id].status \in {Filled, Canceled}

FreezeCurrency(o) == IF o.side = Buy THEN Quote ELSE Base

\* C2 - No stranded funds: once an order is terminal nothing stays frozen
\* for it; so an account all of whose orders are terminal has frozen = 0.
NoStrandedFunds ==
  \A u \in Users, c \in Currencies :
    ( /\ HasRow(bal, u, c)
      /\ \A id \in 1..Len(db) :
           (db[id].user = u /\ FreezeCurrency(db[id]) = c) => Terminal(id) )
    => bal[<<u, c>>].frozen = 0

\* the maker of a trade of the submit of order taker
MakerOf(t, taker) == IF t.buy_order = taker THEN t.sell_order ELSE t.buy_order

\* maker a is ahead of maker b for a taker of side takerSide: strictly
\* better price, or the same price and inserted earlier (ids are given in
\* arrival order and an order enters the book during its own submit)
HasPriority(a, b, takerSide) ==
  \/ IF takerSide = Buy THEN a.price < b.price ELSE a.price > b.price
  \/ a.price = b.price /\ a.id < b.id

OpposingIds(takerSide) == IF takerSide = Buy THEN SideIds(Asks) ELSE SideIds(Bids)

IsSubmit == res'.op \in {"ProcessOrder", "CreateOrder"} /\ Len(mem') = Len(mem) + 1

TradePriceRule ==
  res.op \in {"ProcessOrder", "CreateOrder"} =>
    \A i \in 1..Len(res.Trades) :
      LET t  == res.Trades[i]
          mk == MakerOf(t, res.id)
      IN  /\ res.id \in {t.buy_order, t.sell_order}
          /\ mk # res.id
          /\ t.price = mem[mk].price
          /\ mem[t.buy_order].side = Buy
          /\ mem[t.sell_order].side = Sell
          /\ t.buy_user = mem[t.buy_order].user
          /\ t.sell_user = mem[t.sell_order].user

\* a limit taker trades at a price that is not its own
TradePriceRuleWitness ==
  /\ res.op = "ProcessOrder"
  /\ \E i \in 1..Len(res.Trades) :
       /\ mem[res.id].type = Limit
       /\ res.Trades[i].price # mem[res.id].price
       /\ res.Trades[i].buy_user # res.Trades[i].sell_user

StatusMove(a, b) ==
  \/ a = b
  \/ a = Pending /\ b \in {PartiallyFilled, Filled, Canceled}
  \/ a = PartiallyFilled /\ b \in {Filled, Canceled}

\* C5 - Terminal states are permanent: the status moves only forward, and
\* once Filled or Canceled the status, amount and filled_amount of an order
\* stay as they are, in memory and in the persisted row.
TerminalPermanent ==
  [][ \A id \in 1..Len(db) :
        /\ StatusMove(db[id].status, db'[id].status)
        /\ StatusMove(mem[id].status, mem'[id].status)
        /\ db[id].status \in {Filled, Canceled} => db'[id] = db[id]
        /\ mem[id].status \in {Filled, Canceled} => mem'[id] = mem[id]
    ]_vars

\* C6 - Cancel removes the order from the book: an order whose cancel
\* succeeded is in no price level.
CancelRemovesFromBook ==
  (res.op = "CancelOrder" /\ res.err = "") => res.id \notin BookIds

\* net amount of currency c that the trades moved to user u
TradeInflow(ts, u, c) == BalanceChange(ts, <<u, c>>)

\* C8 - Settlement is one atomic unit: a persisted trade comes with the
\* updated persisted rows of both its orders and with its balance effects.
SettlementAtomic ==
  /\ \A i \in 1..Len(trades) :
       trades[i].amount > 0 =>
         /\ db[trades[i].buy_order].status # Pending
         /\ db[trades[i].sell_order].status # Pending
  /\ \A u \in Users, c \in Currencies :
       Holding(u, c) = deposited[<<u, c>>] + TradeInflow(trades, u, c)

\* C9 - Filled amount monotonicity: filled_amount never decreases and
\* 0 <= filled_amount <= amount at all times.
FilledMonotone ==
  [][ /\ \A id \in 1..Len(mem) : mem'[id].filled >= mem[id].filled
      /\ \A id \in 1..Len(mem') :
           0 <= mem'[id].filled /\ mem'[id].filled <= mem'[id].amount
    ]_vars

\* what of order id was not yet traded before the k-th trade
RECURSIVE TradedBefore(_, _)
TradedBefore(k, id) ==
  IF k <= 1 THEN 0
  ELSE TradedBefore(k - 1, id)
       + (IF id \in {trades[k - 1].buy_order, trades[k - 1].sell_order}
          THEN trades[k - 1].amount ELSE 0)

RemainingBefore(k, id) == mem[id].req - TradedBefore(k, id)

\* C10 - Every trade has amount > 0 and at most the remaining quantity of
\* each of its two orders at the moment it is produced.
TradeAmountBounds ==
  \A k \in 1..Len(trades) :
    /\ trades[k].amount > 0
    /\ trades[k].amount <= Min(RemainingBefore(k, trades[k].buy_order),
                               RemainingBefore(k, trades[k].sell_order))

\* the amount traded against order id in the trade log ts
RECURSIVE Traded(_, _)
Traded(ts, id) ==
  IF ts = <<>> THEN 0
  ELSE Traded(Tail(ts), id)
       + (IF id \in {Head(ts).buy_order, Head(ts).sell_order}
          THEN Head(ts).amount ELSE 0)

\* C7 - Per-symbol single writer: concurrent submits behave as if run one
\* after the other, so no order is traded against for more than the amount
\* it was submitted with.
SingleWriter ==
  \A id \in 1..Len(mem) : Traded(ctrades, id) <= mem[id].req

\* the same bound on the trades of submits run one at a time
SequentialNeverOvertrades ==
  \A id \in 1..Len(mem) : Traded(trades, id) <= mem[id].req

Avail(b, u, c) == IF HasRow(b, u, c) THEN b[<<u, c>>].available ELSE 0
Frozen(b, u, c) == IF HasRow(b, u, c) THEN b[<<u, c>>].frozen ELSE 0

\* a submit that settled without error and produced the single trade t
\* between two users, whose maker stays in the book partially filled
OneTradeOnPartialMaker(t) ==
  /\ res'.op = "CreateOrder"
  /\ res'.err = ""
  /\ res'.Trades = <<t>>
  /\ t.buy_user # t.sell_user
  /\ t.amount > 0
  /\ MakerOf(t, res'.id) \in Range(res'.UpdatedOrders)

\* C11 - Settlement balance deltas: a trade moves price * amount out of the
\* buyer's frozen quote and amount out of the seller's frozen base, and
\* credits the buyer's available base and the seller's available quote; the
\* maker's available balance of the currency it froze is not touched.
SettlementDeltas ==
  [][ \A t \in Range(res'.Trades) :
        OneTradeOnPartialMaker(t) =>
          LET mk == mem'[MakerOf(t, res'.id)]
              v  == t.price * t.amount
          IN  IF mk.side = Buy
              THEN /\ Frozen(bal', mk.user, Quote) = Frozen(bal, mk.user, Quote) - v
                   /\ Avail(bal', mk.user, Quote) = Avail(bal, mk.user, Quote)
                   /\ Avail(bal', mk.user, Base) = Avail(bal, mk.user, Base) + t.amount
              ELSE /\ Frozen(bal', mk.user, Base) = Frozen(bal, mk.user, Base) - t.amount
                   /\ Avail(bal', mk.user, Base) = Avail(bal, mk.user, Base)
                   /\ Avail(bal', mk.user, Quote) = Avail(bal, mk.user, Quote) + v
    ]_vars

BestBidPrice == BidPrices[1]
BestAskPrice == AskPrices[1]

\* C12 - No self-cross of the book: after every submit, run one at a time
\* from an empty book, best bid < best ask whenever both sides are non-empty.
NoSelfCross ==
  (BidPrices # <<>> /\ AskPrices # <<>>) => BestBidPrice < BestAskPrice

\* both sides of the book are populated after a submit that traded
NoSelfCrossWitness ==
  /\ res.op = "ProcessOrder"
  /\ Len(res.Trades) > 0
  /\ BidPrices # <<>>
  /\ AskPrices # <<>>
  /\ BestBidPrice < BestAskPrice

\* the queues that hold order id: <<side, price>> of every level listing it
QueuesOf(id) ==
  {<<Buy, p>> : p \in {q \in DOMAIN Bids : \E i \in 1..Len(Bids[q].Orders) : Bids[q].Orders[i] = id}}
  \cup {<<Sell, p>> : p \in {q \in DOMAIN Asks : \E i \in 1..Len(Asks[q].Orders) : Asks[q].Orders[i] = id}}

\* number of times order id is listed in the queue s
Occurrences(s, id) == Cardinality({i \in 1..Len(s) : s[i] = id})

\* C13 - Book membership: every order in the book is Pending or
\* PartiallyFilled, in memory and in its persisted row, has
\* filled_amount < amount, and is listed once, in the queue of its own side
\* and price only.
BookMembership ==
  \A id \in BookIds :
    /\ mem[id].status \in {Pending, PartiallyFilled}
    /\ id <= Len(db) => db[id].status \in {Pending, PartiallyFilled}
    /\ mem[id].filled < mem[id].amount
    /\ QueuesOf(id) = {<<mem[id].side, mem[id].price>>}
    /\ \A p \in DOMAIN Bids : Occurrences(Bids[p].Orders, id) <= 1
    /\ \A p \in DOMAIN Asks : Occurrences(Asks[p].Orders, id) <= 1

\* the same without the persisted row, for the engine on its own
BookMembershipInMemory ==
  \A id \in BookIds :
    /\ mem[id].status \in {Pending, PartiallyFilled}
    /\ mem[id].filled < mem[id].amount

\* C14 - Level aggregate: every price level's Total is the sum over the
\* orders queued at it of amount - filled_amount.
LevelAggregate ==
  \A ladder \in {Bids, Asks} : \A p \in DOMAIN ladder :
    ladder[p].Total
      = SumSeq([i \in 1..Len(ladder[p].Orders) |->
                  mem[ladder[p].Orders[i]].amount - mem[ladder[p].Orders[i]].filled])

\* the level totals against the quantity of each queued order that was
\* never traded (amount submitted less the amounts of its trades)
LevelAggregateUntraded ==
  \A ladder \in {Bids, Asks} : \A p \in DOMAIN ladder :
    ladder[p].Total
      = SumSeq([i \in 1..Len(ladder[p].Orders) |->
                  mem[ladder[p].Orders[i]].req - Traded(trades, ladder[p].Orders[i])])

\* every order row of user u that froze currency c, other than id, is terminal
OnlyOpenOrder(id) ==
  \A k \in 1..Len(db) :
    (k # id /\ db[k].user = db[id].user /\ FreezeCurrency(db[k]) = FreezeCurrency(db[id]))
      => Terminal(k)

\* C15 - Market order outcome: after the submit of a market order it is
\* Filled when fully consumed and Canceled when partially consumed or not
\* matched at all, in memory and in the persisted row; in the Canceled cases
\* what it froze and did not spend is released (nothing stays frozen for it).
MarketOrderOutcome ==
  (res.op = "CreateOrder" /\ res.err = "" /\ res.id # 0 /\ mem[res.id].type = Market) =>
    LET o        == mem[res.id]
        consumed == SumSeq([i \in 1..Len(res.Trades) |-> res.Trades[i].amount])
        expected == IF consumed = o.req THEN Filled ELSE Canceled
    IN  /\ o.status = expected
        /\ db[res.id].status = expected
        /\ (consumed < o.req /\ OnlyOpenOrder(res.id))
             => Frozen(bal, o.user, FreezeCurrency(o)) = 0

RECURSIVE TradeValue(_)
TradeValue(ts) ==
  IF ts = <<>> THEN 0 ELSE Head(ts).price * Head(ts).amount + TradeValue(Tail(ts))

\* C16 - Market-buy quantity semantics: the amount of a market buy is its
\* quote spend, so the sum of price * amount over its trades never exceeds
\* the amount submitted (the quote frozen for it).
MarketBuySpend ==
  (res.op = "ProcessOrder" /\ mem[res.id].type = Market /\ mem[res.id].side = Buy) =>
    TradeValue(res.Trades) <= calculateFreezeAmount(Market, Buy, mem[res.id].req, 0).amount

\* the level of order o's own side at its price lists it
RestsAtOwnPrice(o) == <<o.side, o.price>> \in QueuesOf(o.id)

\* C17 - Limit taker outcome: with f of the amount a matched, the taker is
\* Filled with filled_amount a, in the filled list and not in the book when
\* f = a; PartiallyFilled with filled_amount f, resting at its own price
\* and in the updated list when 0 < f < a; Pending with filled_amount 0,
\* resting and in the updated list when f = 0.  Each maker touched is in the
\* filled list and out of the book when fully consumed, in the updated list
\* when partially consumed.
LimitTakerOutcome ==
  (res.op = "ProcessOrder" /\ mem[res.id].type = Limit) =>
    LET o == mem[res.id]
        a == o.req
        f == SumSeq([i \in 1..Len(res.Trades) |-> res.Trades[i].amount])
    IN  /\ f = a => /\ o.status = Filled
                    /\ o.filled = a
                    /\ o.id \in Range(res.FilledOrders)
                    /\ o.id \notin BookIds
        /\ (0 < f /\ f < a) => /\ o.status = PartiallyFilled
                               /\ o.filled = f
                               /\ RestsAtOwnPrice(o)
                               /\ o.id \in Range(res.UpdatedOrders)
        /\ f = 0 => /\ o.status = Pending
                    /\ o.filled = 0
                    /\ RestsAtOwnPrice(o)
                    /\ o.id \in Range(res.UpdatedOrders)
        /\ \A i \in 1..Len(res.Trades) :
             LET mk == MakerOf(res.Trades[i], res.id)
             IN  IF Traded(trades, mk) = mem[mk].req
                 THEN mk \in Range(res.FilledOrders) /\ mk \notin BookIds
                 ELSE mk \in Range(res.UpdatedOrders)

\* a submit whose order row was inserted and whose settlement then failed
SettlementFailed == res'.op = "CreateOrder" /\ res'.err # "" /\ Len(db') = Len(db) + 1

\* C18 - Rollback on settlement failure: when persisting the result of a
\* submit fails, the in-memory book is as it was before the submit: the
\* makers consumed are back with their remaining amounts and the taker is
\* not resting.
RollbackOnSettlementFailure ==
  [][ SettlementFailed =>
        /\ Bids' = Bids
        /\ Asks' = Asks
        /\ BidPrices' = BidPrices
        /\ AskPrices' = AskPrices
        /\ \A id \in 1..Len(mem) : mem'[id] = mem[id]
    ]_vars

\* C19 - Order persistence at settlement: once a submit has settled without
\* error, the persisted row of every order in its filled list or updated
\* list carries the order's new filled_amount and status.
OrderPersistence ==
  (res.op = "CreateOrder" /\ res.err = "" /\ res.id # 0) =>
    \A id \in Range(res.FilledOrders) \cup Range(res.UpdatedOrders) :
      /\ db[id].status = mem[id].status
      /\ db[id].filled = mem[id].filled

RejectErrors == {"ErrOrderNotFound", "ErrForbidden",
                 "ErrOrderAlreadyCanceled", "ErrOrderAlreadyFilled"}

\* C20 - A rejected cancel has no side effects: a cancel answered with
\* OrderNotFound, Forbidden, OrderAlreadyCanceled or OrderAlreadyFilled
\* changes no order, balance or book state, and the cancel of an order that
\* is already Filled or Canceled is answered that way (it never goes through
\* to the status update and the unfreeze).
RejectedCancelNoSideEffects ==
  [][ /\ (res'.op = "CancelOrder" /\ res'.err \in RejectErrors)
           => UNCHANGED <<mem, db, bal, trades, Bids, Asks, BidPrices, AskPrices>>
      /\ \A id \in 1..Len(db) :
           (res'.op = "CancelOrder" /\ res'.id = id) => ~Terminal(id)
    ]_vars

\* the first half on its own: a cancel answered with one of the four errors
\* leaves every order, balance and price level as it was
RejectedCancelChangesNothing ==
  [][ (res'.op = "CancelOrder" /\ res'.err \in RejectErrors)
        => UNCHANGED <<mem, db, bal, trades, Bids, Asks, BidPrices, AskPrices>>
    ]_vars

\* ------------------------------------------------------ sitting 3: C21..C30
\* the step is a cancel that returned no error
CancelSucceeded == res'.op = "CancelOrder" /\ res'.err = "" /\ res'.id # 0

\* what a cancel has to release for the row o when amt is its order amount
Residual(o, amt) ==
  IF o.side = Buy /\ o.type = Limit THEN (amt - o.filled) * o.price
  ELSE amt - o.filled

\* bal after moving x of currency c of user u from frozen to available
Released(u, c, x) ==
  [bal EXCEPT ![<<u, c>>] = [available |-> @.available + x, frozen |-> @.frozen - x]]

\* C21 - Cancel residual: a successful cancel sets the status to Canceled
\* and unfreezes exactly (amount - filled_amount) * price of the quote
\* currency for a limit buy, amount - filled_amount of the quote currency
\* for a market buy and of the base currency for a sell, amount being the
\* amount of the order; with a residual <= 0 nothing is unfrozen and the
\* order is still marked Canceled.
CancelResidual ==
  [][ CancelSucceeded =>
        LET o == db[res'.id]
            x == Residual(o, o.req)
        IN  /\ db'[res'.id].status = Canceled
            /\ bal' = IF x > 0 THEN Released(o.user, FreezeCurrency(o), x) ELSE bal
    ]_vars

\* the same computed from the fields of the row as they are stored holds:
\* the divergence comes from the engine having overwritten the row's amount
CancelResidualOfRow ==
  [][ CancelSucceeded =>
        LET o == db[res'.id]
            x == Residual(o, o.amount)
        IN  /\ db'[res'.id].status = Canceled
            /\ bal' = IF x > 0 THEN Released(o.user, FreezeCurrency(o), x) ELSE bal
    ]_vars

\* C22 - Cancellation is serialized against the matcher: a cancel and a
\* submit that can match the canceled order take effect in one of the two
\* sequential orders; in the order "cancel first" the submit does not trade
\* against the canceled order, so a quantity released by a cancel is never
\* traded afterwards.
CancelSerializedWithMatcher ==
  [][ IsSubmit =>
        \A i \in 1..Len(res'.Trades) :
          LET m == MakerOf(res'.Trades[i], Len(mem'))
          IN  m \in 1..Len(db) => db[m].status # Canceled
    ]_vars

\* OrderBook.GetDepth: copies of the first depth price levels of each side,
\* read under the book's read lock
GetDepth(depth) ==
  [bids |-> [i \in 1..Min(Len(BidPrices), depth) |-> Bids[BidPrices[i]]],
   asks |-> [i \in 1..Min(Len(AskPrices), depth) |-> Asks[AskPrices[i]]]]

\* C23 - Depth snapshots are never torn: a submit changes what a depth read
\* returns in one step, so a read concurrent with it sees the book as it was
\* before the submit began or as it is after the submit completed, never a
\* book between two steps of one matching walk (makers already taken out,
\* the taker's remainder not yet resting).
DepthNeverTorn ==
  [][ \A p \in Procs :
        ( /\ cpc[p] = "rest" /\ cpc'[p] = "done"
          /\ \E d \in 1..MaxPrice : GetDepth(d)' # GetDepth(d) )
        => crem[p] = mem[cord[p]].req
    ]_vars

\* the errors of a place-order that is rejected: unknown or disabled pair,
\* invalid type, side, amount or price, insufficient balance
PlacementRejections ==
  {"ErrTradingPairNotFound", "ErrTradingPairDisabled", "ErrInvalidOrderType",
   "ErrInvalidOrderSide", "ErrInvalidAmount", "price must be positive",
   "ErrInsufficientBalance"}

\* C24 - A rejected order placement has no side effects: when place-order
\* fails because the pair is unknown or disabled, because type, side, amount
\* or price is invalid, or because the freeze returns InsufficientBalance,
\* no balance changes, no order row is created and the book of the matching
\* engine is not touched.
RejectedPlacementNoSideEffects ==
  [][ (res'.op = "CreateOrder" /\ res'.err \in PlacementRejections)
        => UNCHANGED <<bal, db, mem, Bids, Asks, BidPrices, AskPrices, trades>>
    ]_vars

\* a placement was rejected for insufficient balance while the account has
\* a row, an order rests in the book and funds are frozen for it
RejectedPlacementWitness ==
  /\ res.op = "CreateOrder"
  /\ res.err = "ErrInsufficientBalance"
  /\ BookIds # {}
  /\ \E k \in DOMAIN bal : bal[k].frozen > 0

\* C25 - Order placement is atomic: the freeze and the insertion of the
\* order row are one transaction, so a place-order that creates no order
\* row leaves no freeze behind (an insert that fails after the freeze
\* succeeded undoes the freeze).
PlacementAtomic ==
  [][ (res'.op = "CreateOrder" /\ Len(db') = Len(db)) => bal' = bal ]_vars

\* the step is a place-order that inserted its row and matched nothing
PlacedWithoutTrade ==
  res'.op = "CreateOrder" /\ Len(db') = Len(db) + 1 /\ res'.Trades = <<>>

\* C26 - Freeze amount at placement: place-order freezes amount * price of
\* the quote currency for a limit buy, amount of the quote currency for a
\* market buy and amount of the base currency for a limit or market sell,
\* in the account of the calling user and in no other account.
PlacementFreeze ==
  [][ PlacedWithoutTrade =>
        LET o == db'[Len(db')]
            x == IF o.side = Buy /\ o.type = Limit THEN o.req * o.price ELSE o.req
        IN  bal' = [bal EXCEPT ![<<o.user, FreezeCurrency(o)>>] =
                      [available |-> @.available - x, frozen |-> @.frozen + x]]
    ]_vars

\* a limit buy of amount 2 at price 2 was placed and rests: 4 of the quote
\* currency are frozen for its user
PlacementFreezeWitness ==
  /\ res.op = "CreateOrder" /\ res.err = "" /\ res.id = Len(db) /\ res.id > 0
  /\ res.Trades = <<>>
  /\ LET o == db[res.id]
     IN  /\ o.type = Limit /\ o.side = Buy /\ o.req = 2 /\ o.price = 2
         /\ Frozen(bal, o.user, Quote) = 4
         /\ Avail(bal, o.user, Quote) = 0

\* C27 - Freeze contract: freeze(user, currency, amount) succeeds only when
\* amount > 0, the account exists and available >= amount, and then
\* decreases available and increases frozen by exactly amount; otherwise it
\* returns an error (InsufficientBalance when available < amount) and
\* leaves available and frozen unchanged.
FreezeContract ==
  [][ res'.op = "FreezeBalance" =>
        LET u == res'.user
            c == res'.currency
            a == res'.amount
        IN  IF a > 0 /\ HasRow(bal, u, c) /\ Avail(bal, u, c) >= a
            THEN /\ res'.err = ""
                 /\ bal' = [bal EXCEPT ![<<u, c>>] =
                              [available |-> @.available - a, frozen |-> @.frozen + a]]
            ELSE /\ res'.err # ""
                 /\ bal' = bal
                 /\ (a > 0 /\ HasRow(bal, u, c)) => res'.err = "ErrInsufficientBalance"
    ]_vars

\* a freeze was refused for insufficient balance on an account that holds
\* less than the amount but more than zero, part of it already frozen
FreezeContractWitness ==
  /\ res.op = "FreezeBalance"
  /\ res.err = "ErrInsufficientBalance"
  /\ Avail(bal, res.user, res.currency) > 0
  /\ Frozen(bal, res.user, res.currency) > 0

\* C28 - Unfreeze is the inverse of freeze: unfreeze(user, currency, amount)
\* requires frozen >= amount (else an error and no change) and moves exactly
\* amount from frozen to available; freeze(a) followed by unfreeze(a)
\* restores both sub-balances; every freeze or unfreeze call, successful or
\* failed, keeps available + frozen of every account constant.
UnfreezeInverse ==
  [][ /\ res'.op = "UnfreezeBalance" =>
           LET u == res'.user
               c == res'.currency
               a == res'.amount
           IN  IF a > 0 /\ HasRow(bal, u, c) /\ Frozen(bal, u, c) >= a
               THEN /\ res'.err = ""
                    /\ bal' = [bal EXCEPT ![<<u, c>>] =
                                 [available |-> @.available + a, frozen |-> @.frozen - a]]
               ELSE /\ res'.err # ""
                    /\ bal' = bal
      /\ res'.op = "FreezeBalance" /\ res'.err = "" =>
           UnfreezeBalance(bal', res'.user, res'.currency, res'.amount)
             = [bal |-> bal, err |-> ""]
      /\ res'.op \in {"FreezeBalance", "UnfreezeBalance"} =>
           /\ DOMAIN bal' = DOMAIN bal
           /\ \A k \in DOMAIN bal :
                bal'[k].available + bal'[k].frozen = bal[k].available + bal[k].frozen
    ]_vars

\* an unfreeze of less than the frozen amount succeeded on an account and
\* left part of the funds frozen
UnfreezeInverseWitness ==
  /\ res.op = "UnfreezeBalance"
  /\ res.err = ""
  /\ Frozen(bal, res.user, res.currency) > 0
  /\ Avail(bal, res.user, res.currency) >= res.amount

\* C29 - Balance non-negativity: in every state reachable by deposits,
\* order placements, matching with settlement and cancels, every balance
\* row, rows created by settlement on a first credit included, has
\* available >= 0 and frozen >= 0.
BalanceNonNegative ==
  \A k \in DOMAIN bal : bal[k].available >= 0 /\ bal[k].frozen >= 0

\* the balances after the call of goroutine p made alone on the balances b
CallAlone(b, p) ==
  IF cord[p] = "FreezeBalance" THEN FreezeBalance(b, Acct[1], Acct[2], crem[p]).bal
  ELSE IF cord[p] = "UnfreezeBalance"
  THEN UnfreezeBalance(b, Acct[1], Acct[2], crem[p]).bal
  ELSE applyBalanceChange(b, Acct[1], Acct[2], crem[p]).bal

\* the balances that the calls of the goroutines in S give, made one after
\* the other in any order, starting from b
RECURSIVE SequentialOutcomes(_, _)
SequentialOutcomes(b, S) ==
  IF S = {} THEN {b}
  ELSE UNION {SequentialOutcomes(CallAlone(b, p), S \ {p}) : p \in S}

\* C30 - Per-account serialization: concurrent balance operations on one
\* account (freeze, unfreeze, settlement credit or debit) are serialized:
\* once they have all returned, available and frozen are those of some
\* sequential order of the operations (no lost update).
AccountSerialized ==
  (\A p \in Procs : cpc[p] \in {"idle", "done"})
    => \/ bal = <<>>
       \/ bal \in SequentialOutcomes(Acct :> [available |-> deposited[Acct], frozen |-> 0],
                                     {p \in Procs : cpc[p] = "done"})

\* ------------------------------------------------------ sitting 4: C31..C40
\* C31 - Market orders never rest: after any sequence of submits no order
\* of type Market is in a price level of the book, whether it was fully
\* matched, partly matched or not matched.
MarketNeverRests ==
  \A id \in BookIds : mem[id].type # Market

\* the last submit was a market order that consumed a maker and was left
\* with a remainder, and another order still rests in the book
MarketNeverRestsWitness ==
  /\ res.op = "ProcessOrder"
  /\ res.id > 0
  /\ mem[res.id].type = Market
  /\ mem[res.id].status = Canceled
  /\ res.Trades # <<>>
  /\ BookIds # {}

\* C32 - Ladder consistency: after any sequence of AddOrder, RemoveOrder,
\* Clear and ProcessOrder run one at a time, no price level has an empty
\* queue, BidPrices / AskPrices hold exactly the prices that are keys of
\* Bids / Asks, each once, and GetBestBid / GetBestAsk report absent
\* exactly when the side has no order.
LadderConsistent ==
  /\ \A p \in DOMAIN Bids : Bids[p].Orders # <<>>
  /\ \A p \in DOMAIN Asks : Asks[p].Orders # <<>>
  /\ Range(BidPrices) = DOMAIN Bids
  /\ Range(AskPrices) = DOMAIN Asks
  /\ Len(BidPrices) = Cardinality(DOMAIN Bids)
  /\ Len(AskPrices) = Cardinality(DOMAIN Asks)
  /\ HasBest(Book, Sell) <=> SideIds(Bids) # {}
  /\ HasBest(Book, Buy) <=> SideIds(Asks) # {}

\* RemoveOrder has just drained a level, which is gone from its side, while
\* the same side still has another level
LadderConsistentWitness ==
  /\ res.op = "RemoveOrder"
  /\ mem[res.id].side = Buy
  /\ mem[res.id].price \notin DOMAIN Bids
  /\ res.id \notin BookIds
  /\ Len(BidPrices) = 1
  /\ mem[res.id].status = Pending

\* the quantity of the orders queued at level pl that was never traded
Aggregate(pl) ==
  SumSeq([i \in 1..Len(pl.Orders) |->
            mem[pl.Orders[i]].req - Traded(trades, pl.Orders[i])])

\* the levels of one side of a depth read of n levels: the first
\* min(n, number of levels), best price first, strictly ordered
DepthSide(lv, ladder, n, isBid) ==
  /\ Len(lv) = Min(n, Cardinality(DOMAIN ladder))
  /\ \A i \in 1..Len(lv) : lv[i].Price \in DOMAIN ladder
  /\ \A i \in 1..Len(lv) : \A p \in DOMAIN ladder :
       (IF isBid THEN p > lv[i].Price ELSE p < lv[i].Price)
         => \E j \in 1..(i - 1) : lv[j].Price = p
  /\ \A i \in 1..(Len(lv) - 1) :
       IF isBid THEN lv[i].Price > lv[i + 1].Price ELSE lv[i].Price < lv[i + 1].Price

\* C33 - Depth output: GetDepth(n) returns for each side the first
\* min(n, number of levels) price levels, bids in strictly descending price
\* order from the highest bid, asks in strictly ascending price order from
\* the lowest ask, each with the level's price and aggregate amount (the
\* read itself is a pure function of the book and modifies nothing).
DepthOutput ==
  \A n \in 0..(MaxPrice + 1) :
    LET d == GetDepth(n)
    IN  /\ DepthSide(d.bids, Bids, n, TRUE)
        /\ DepthSide(d.asks, Asks, n, FALSE)
        /\ \A i \in 1..Len(d.bids) : d.bids[i].Total = Aggregate(Bids[d.bids[i].Price])
        /\ \A i \in 1..Len(d.asks) : d.asks[i].Total = Aggregate(Asks[d.asks[i].Price])

\* the same without the aggregate amounts holds: number of levels, prices
\* and their order are as the claim says
DepthLevelsOrdered ==
  \A n \in 0..(MaxPrice + 1) :
    /\ DepthSide(GetDepth(n).bids, Bids, n, TRUE)
    /\ DepthSide(GetDepth(n).asks, Asks, n, FALSE)

\* C34 - Cross-symbol independence: a submit, cancel or depth read on one
\* symbol leaves the book of every other symbol unchanged, and it takes the
\* lock of no other symbol's book, so operations on different symbols never
\* wait for each other's book lock.
CrossSymbolIndependent ==
  [][ /\ \A sym \in DOMAIN orderBooks :
           sym # res'.symbol =>
             sym \in DOMAIN orderBooks' /\ orderBooks'[sym] = orderBooks[sym]
      /\ res'.locks \subseteq {res'.symbol}
    ]_vars

\* a sell was submitted on ETH/USDT at the price of a bid resting on
\* BTC/USDT: it did not trade and rests in its own book, the bid in its own
CrossSymbolWitness ==
  /\ res.op = "ProcessOrder"
  /\ res.symbol = "ETH/USDT"
  /\ res.Trades = <<>>
  /\ DOMAIN orderBooks = Symbols
  /\ orderBooks["BTC/USDT"].BidPrices = <<1>>
  /\ orderBooks["ETH/USDT"].AskPrices = <<1>>

\* C35 - Filled means fully traded: whenever an order's status is Filled, as
\* the taker of a submit or as a maker consumed over one or several submits,
\* the sum of the amounts of all trades that reference it equals the amount
\* it was submitted with.
FilledFullyTraded ==
  \A id \in 1..Len(mem) :
    mem[id].status = Filled => Traded(trades, id) = mem[id].req

\* C36 - Settlement of funded orders cannot fail for lack of funds: when an
\* order was inserted and its funds were frozen, the settlement of its trades
\* with resting orders, which were funded the same way, never returns an
\* insufficient-balance or unfreeze error, whatever the owners' available
\* balances are, for limit and market orders alike.
SettlementErrors ==
  {"insufficient balance after trade execution", "insufficient frozen balance"}

SettlementFunded ==
  [][ (res'.op = "CreateOrder" /\ Len(db') = Len(db) + 1)
        => res'.err \notin SettlementErrors ]_vars

\* C37 - A matching failure does not affect order creation: when the order
\* row was inserted and its funds frozen, and settlement then returns an
\* error, CreateOrder still returns the created order without error, and the
\* order row and the freeze stay in place.
MatchingFailed ==
  /\ res'.op = "CreateOrder"
  /\ Len(db') = Len(db) + 1
  /\ res'.err # ""

MatchingFailureKeepsOrder ==
  [][ MatchingFailed =>
        LET id == res'.id
            o  == db'[id]
            fz == calculateFreezeAmount(o.type, o.side, o.req, o.price)
        IN  /\ CreateOrderResponse(mem', res').err = ""
            /\ CreateOrderResponse(mem', res').ID = Len(db')
            /\ o.id = id
            /\ bal'[<<o.user, fz.currency>>].frozen
                 = bal[<<o.user, fz.currency>>].frozen + fz.amount
    ]_vars

\* a CreateOrder inserted the row, froze the funds and its settlement failed
MatchingFailureWitness ==
  /\ res.op = "CreateOrder"
  /\ res.id = Len(db)
  /\ res.err = "insufficient balance after trade execution"
  /\ res.Trades # <<>>
  /\ CreateOrderResponse(mem, res).err = ""

\* C38 - ProcessOrder terminates: for every limit or market order and every
\* book reachable by earlier submits, each iteration of the matching loop
\* either removes the head maker from the book or brings the taker's
\* remaining amount to zero, and every call that entered the loop reaches
\* its end.
ProcessOrderTerminates ==
  /\ [][ \A p \in Procs :
           (cpc[p] = "update" /\ cpc'[p] = "loop")
             => (cpeek[p].maker \notin BookIds' \/ crem[p] = 0) ]_vars
  /\ \A p \in Procs : (cpc[p] = "loop") ~> (cpc[p] = "done")

\* a call has ended after two iterations of its loop
ProcessOrderTerminatesWitness ==
  \E p \in Procs :
    /\ cpc[p] = "done"
    /\ Cardinality({i \in 1..Len(ctrades) :
                      cord[p] \in {ctrades[i].buy_order, ctrades[i].sell_order}}) >= 2

\* ------------------------------------------------ the lock of one book
\* Goroutines call GetOrderBookSnapshot, AddOrder, RemoveOrder and
\* UpdateOrderAmount on one book.  mutex is the book's sync.RWMutex: readers
\* counts the read locks held, writer is the goroutine that called Lock and
\* waits for the readers to leave or holds the lock (0: none).  As
\* sync.RWMutex documents, RLock blocks while a Lock call is pending, also
\* for a goroutine that already holds a read lock.  Here cord[p] is the
\* operation of goroutine p, cpeek[p].maker its order and crem[p] its amount.
RLockReady(mu) == mu.writer = 0

RLock(mu) == [mu EXCEPT !.readers = @ + 1]

RUnlock(mu) == [mu EXCEPT !.readers = @ - 1]

\* GetOrderBookSnapshot: orderBook.mutex.RLock()
SnapshotRLock(p) ==
  /\ cpc[p] = "idle"
  /\ \A q \in Procs : q < p => cpc[q] # "idle"
  /\ RLockReady(mutex)
  /\ mutex' = RLock(mutex)
  /\ cord' = [cord EXCEPT ![p] = "GetOrderBookSnapshot"]
  /\ cpc' = [cpc EXCEPT ![p] = "snapBid"]
  /\ UNCHANGED <<mem, Bids, Asks, BidPrices, AskPrices, crem, cpeek, ctrades>>
  /\ UNCHANGED <<db, bal, trades, deposited, ndep, res, orderBooks>>

\* GetBestBid / GetBestAsk called by the snapshot: ob.mutex.RLock()
GetBestRLock(p) ==
  /\ cpc[p] \in {"snapBid", "snapAsk"}
  /\ RLockReady(mutex)
  /\ mutex' = RLock(mutex)
  /\ cpc' = [cpc EXCEPT ![p] = IF cpc[p] = "snapBid" THEN "inBid" ELSE "inAsk"]
  /\ UNCHANGED <<mem, Bids, Asks, BidPrices, AskPrices, cord, crem, cpeek, ctrades>>
  /\ UNCHANGED <<db, bal, trades, deposited, ndep, res, orderBooks>>

\* GetBestBid / GetBestAsk return: the deferred ob.mutex.RUnlock()
GetBestRUnlock(p) ==
  /\ cpc[p] \in {"inBid", "inAsk"}
  /\ mutex' = RUnlock(mutex)
  /\ cpc' = [cpc EXCEPT ![p] = IF cpc[p] = "inBid" THEN "snapAsk" ELSE "snapEnd"]
  /\ UNCHANGED <<mem, Bids, Asks, BidPrices, AskPrices, cord, crem, cpeek, ctrades>>
  /\ UNCHANGED <<db, bal, trades, deposited, ndep, res, orderBooks>>

\* GetOrderBookSnapshot returns: the deferred orderBook.mutex.RUnlock()
SnapshotRUnlock(p) ==
  /\ cpc[p] = "snapEnd"
  /\ mutex' = RUnlock(mutex)
  /\ cpc' = [cpc EXCEPT ![p] = "done"]
  /\ res' = [op |-> "GetOrderBookSnapshot", id |-> 0, err |-> "",
             bid_levels |-> Cardinality(DOMAIN Bids),
             ask_levels |-> Cardinality(DOMAIN Asks),
             bid_prices |-> Len(BidPrices), ask_prices |-> Len(AskPrices),
             best_bid |-> IF BidPrices # <<>> THEN BidPrices[1] ELSE 0,
             best_ask |-> IF AskPrices # <<>> THEN AskPrices[1] ELSE 0]
  /\ UNCHANGED <<mem, Bids, Asks, BidPrices, AskPrices, cord, crem, cpeek, ctrades>>
  /\ UNCHANGED <<db, bal, trades, deposited, ndep, orderBooks>>

\* ob.mutex.Lock() is called by a writer: the call is pending from now on
WriterLock(p, op, id, amount) ==
  /\ cpc[p] = "idle"
  /\ \A q \in Procs : q < p => cpc[q] # "idle"
  /\ mutex.writer = 0
  /\ mutex' = [mutex EXCEPT !.writer = p]
  /\ cord' = [cord EXCEPT ![p] = op]
  /\ cpeek' = [cpeek EXCEPT ![p] = [maker |-> id, amount |-> 0]]
  /\ crem' = [crem EXCEPT ![p] = amount]
  /\ cpc' = [cpc EXCEPT ![p] = "lockWait"]
  /\ UNCHANGED <<Bids, Asks, BidPrices, AskPrices, ctrades>>
  /\ UNCHANGED <<db, bal, trades, deposited, ndep, res, orderBooks>>

\* OrderBook.AddOrder is called with a new order
AddOrderLock(p, side, amount, price) ==
  LET id == Len(mem) + 1
  IN  /\ Len(mem) < MaxBookOrders
      /\ mem' = Append(mem, NewOrder(id, Owner(id), Limit, side, amount, price))
      /\ WriterLock(p, "AddOrder", id, amount)

\* OrderBook.RemoveOrder is called with an order
RemoveOrderLock(p, id) ==
  /\ id \in 1..Len(mem)
  /\ mem' = mem
  /\ WriterLock(p, "RemoveOrder", id, 0)

\* OrderBook.UpdateOrderAmount is called with an order and a new amount
UpdateOrderAmountLock(p, id, newAmount) ==
  /\ id \in 1..Len(mem)
  /\ mem' = mem
  /\ WriterLock(p, "UpdateOrderAmount", id, newAmount)

\* the pending Lock returns once no read lock is held
WriterAcquire(p) ==
  /\ cpc[p] = "lockWait"
  /\ mutex.readers = 0
  /\ cpc' = [cpc EXCEPT ![p] = "locked"]
  /\ UNCHANGED <<mem, Bids, Asks, BidPrices, AskPrices, cord, crem, cpeek, ctrades>>
  /\ UNCHANGED <<db, bal, trades, deposited, ndep, res, orderBooks, mutex>>

\* the writer's body and its deferred ob.mutex.Unlock()
WriterUnlock(p) ==
  LET o == mem[cpeek[p].maker]
  IN  /\ cpc[p] = "locked"
      /\ IF cord[p] = "AddOrder"
         THEN /\ SetBook(AddOrder(Book, o))
              /\ mem' = mem
         ELSE IF cord[p] = "RemoveOrder"
         THEN /\ SetBook(RemoveOrder(Book, o))
              /\ mem' = mem
         ELSE /\ SetBook(UpdateOrderAmount(Book, o, crem[p]))
              /\ mem' = [mem EXCEPT ![o.id].amount =
                           IF LevelExists(Book, o) THEN crem[p] ELSE @]
      /\ mutex' = [mutex EXCEPT !.writer = 0]
      /\ cpc' = [cpc EXCEPT ![p] = "done"]
      /\ res' = [NoResult EXCEPT !.op = cord[p], !.id = o.id]
      /\ UNCHANGED <<cord, crem, cpeek, ctrades>>
      /\ UNCHANGED <<db, bal, trades, deposited, ndep, orderBooks>>

NextLock ==
  \/ \E p \in Procs : SnapshotRLock(p)
  \/ \E p \in Procs : GetBestRLock(p)
  \/ \E p \in Procs : GetBestRUnlock(p)
  \/ \E p \in Procs : SnapshotRUnlock(p)
  \/ \E p \in Procs, sd \in {Buy, Sell}, a \in 1..MaxAmt, pr \in 1..MaxPrice :
       AddOrderLock(p, sd, a, pr)
  \/ \E p \in Procs, id \in 1..MaxBookOrders : RemoveOrderLock(p, id)
  \/ \E p \in Procs, id \in 1..MaxBookOrders, a \in 1..MaxAmt :
       UpdateOrderAmountLock(p, id, a)
  \/ \E p \in Procs : WriterAcquire(p)
  \/ \E p \in Procs : WriterUnlock(p)

SpecLock == InitConc /\ [][NextLock]_vars

\* C39 - GetOrderBookSnapshot always completes: when it runs concurrently
\* with AddOrder, RemoveOrder or UpdateOrderAmount on the same book, no state
\* is reached in which the snapshot, holding the book's read lock, waits in
\* GetBestBid / GetBestAsk for that read lock while a writer waits for the
\* lock.
SnapshotBlocked(p) ==
  /\ cpc[p] \in {"snapBid", "snapAsk"}
  /\ ~RLockReady(mutex)

WriterBlocked(q) ==
  /\ cpc[q] = "lockWait"
  /\ mutex.readers > 0

SnapshotCompletes ==
  ~ \E p \in Procs, q \in Procs : SnapshotBlocked(p) /\ WriterBlocked(q)

\* ------------------------------------------ concurrent calls of GetOrderBook
\* Goroutines call GetOrderBook and add an order to the book it returned.
\* The first look at the map runs under me.mutex.RLock(), the creation under
\* me.mutex.Lock(); each is one step, and other goroutines run between the
\* two.  A book carries the identity of its instance (the goroutine that
\* created it); an order added to an instance that is no longer in the map
\* is out of reach.  Here cord[p] is the symbol of goroutine p, cpeek[p] what
\* it saw and got, and crem[p] the order it added.
NewOrderBookInstance(inst) == NewOrderBook @@ [instance |-> inst]

\* a locked section that creates the book without looking at the map again
GetOrderBookLockedNoCheck(obs, sym, inst) ==
  Put(obs, sym, NewOrderBookInstance(inst))

\* the section of GetOrderBook under me.mutex.Lock(): the second look and
\* the creation
GetOrderBookLocked(obs, sym, inst) ==
  IF sym \in DOMAIN obs THEN obs ELSE Put(obs, sym, NewOrderBookInstance(inst))

\* the first look of GetOrderBook, under me.mutex.RLock()
GetOrderBookRead(p, sym) ==
  /\ cpc[p] = "idle"
  /\ \A q \in Procs : q < p => cpc[q] # "idle"
  /\ cord' = [cord EXCEPT ![p] = sym]
  /\ IF sym \in DOMAIN orderBooks
     THEN /\ cpeek' = [cpeek EXCEPT ![p] =
                         [exists |-> TRUE, instance |-> orderBooks[sym].instance]]
          /\ cpc' = [cpc EXCEPT ![p] = "got"]
     ELSE /\ cpeek' = [cpeek EXCEPT ![p] = [exists |-> FALSE, instance |-> 0]]
          /\ cpc' = [cpc EXCEPT ![p] = "create"]
  /\ UNCHANGED <<mem, Bids, Asks, BidPrices, AskPrices, crem, ctrades>>
  /\ UNCHANGED seqVars

\* the locked section of GetOrderBook and its return
GetOrderBookCreate(p) ==
  LET obs == GetOrderBookLocked(orderBooks, cord[p], p)
  IN  /\ cpc[p] = "create"
      /\ orderBooks' = obs
      /\ cpeek' = [cpeek EXCEPT ![p].instance = obs[cord[p]].instance]
      /\ cpc' = [cpc EXCEPT ![p] = "got"]
      /\ UNCHANGED <<mem, Bids, Asks, BidPrices, AskPrices, cord, crem, ctrades>>
      /\ UNCHANGED <<db, bal, trades, deposited, ndep, res, mutex>>

\* the caller adds an order to the book it got
AddOrderReturned(p, side, amount, price) ==
  LET id    == Len(mem) + 1
      order == NewOrder(id, Owner(id), Limit, side, amount, price)
      sym   == cord[p]
  IN  /\ cpc[p] = "got"
      /\ mem' = Append(mem, order)
      /\ orderBooks' = IF orderBooks[sym].instance = cpeek[p].instance
                       THEN [orderBooks EXCEPT ![sym] = AddOrder(@, order)]
                       ELSE orderBooks
      /\ crem' = [crem EXCEPT ![p] = id]
      /\ cpc' = [cpc EXCEPT ![p] = "done"]
      /\ res' = [NoResult EXCEPT !.op = "AddOrder", !.id = id]
      /\ UNCHANGED <<Bids, Asks, BidPrices, AskPrices, cord, cpeek, ctrades>>
      /\ UNCHANGED <<db, bal, trades, deposited, ndep, mutex>>

NextBooks ==
  \/ \E p \in Procs, sym \in Symbols : GetOrderBookRead(p, sym)
  \/ \E p \in Procs : GetOrderBookCreate(p)
  \/ \E p \in Procs, sd \in {Buy, Sell} : AddOrderReturned(p, sd, 1, 1)

SpecBooks == InitConc /\ [][NextBooks]_vars

\* C40 - One book per symbol: all calls of GetOrderBook for the same symbol,
\* including concurrent first calls, return the same OrderBook instance, and
\* a book once created is never replaced, so no order added to a returned
\* book is lost by book creation.
SameInstance ==
  \A p \in Procs, q \in Procs :
    (cpc[p] \in {"got", "done"} /\ cpc[q] \in {"got", "done"} /\ cord[p] = cord[q])
      => cpeek[p].instance = cpeek[q].instance

NoOrderLost ==
  \A p \in Procs :
    cpc[p] = "done" =>
      crem[p] \in SideIds(orderBooks[cord[p]].Bids)
                    \cup SideIds(orderBooks[cord[p]].Asks)

OneBookPerSymbol ==
  /\ [][ \A sym \in DOMAIN orderBooks :
           /\ sym \in DOMAIN orderBooks'
           /\ orderBooks'[sym].instance = orderBooks[sym].instance ]_vars
  /\ [] SameInstance
  /\ [] NoOrderLost

\* two goroutines both found no book of the symbol at their first look, both
\* went through the locked section, and both have added their order
OneBookPerSymbolWitness ==
  \E p \in Procs, q \in Procs :
    /\ p # q
    /\ cpc[p] = "done" /\ cpc[q] = "done"
    /\ cord[p] = cord[q]
    /\ ~cpeek[p].exists /\ ~cpeek[q].exists

====
